---------------------------- MODULE Spec2Model ----------------------------
(***************************************************************************)
(* A model of the EPUB metadata / cover engine of gopds                    *)
(* (package scanner) and of the operations built on it.                    *)
(*                                                                         *)
(* Text is modelled at the level the regular expressions of the source     *)
(* see it: a document is a sequence of symbols, a symbol being either a    *)
(* run of text or one whole markup tag (an opening tag, a closing tag, a   *)
(* self-closing tag, a <meta .../> tag, a manifest <item .../>, a          *)
(* comment).  Strings are sequences of one-character strings.              *)
(***************************************************************************)
EXTENDS Integers, Sequences, FiniteSets, TLC

(***************************************************************************)
(* Symbols                                                                 *)
(***************************************************************************)
Text(v)       == [k |-> "text", v |-> v]
Open(p, t)    == [k |-> "open", p |-> p, t |-> t, a |-> ""]
OpenA(p, t, a) == [k |-> "open", p |-> p, t |-> t, a |-> a]
Close(p, t)   == [k |-> "close", p |-> p, t |-> t]
SelfTag(p, t) == [k |-> "self", p |-> p, t |-> t, a |-> ""]
Meta(q, n, v) == [k |-> "meta", q |-> q, n |-> n, v |-> v]
Cmt(c)        == [k |-> "cmt", c |-> c]

ToSyms(s) == IF s = <<>> THEN <<>> ELSE <<Text(s)>>

NL == "\n"

MinOf(S) == CHOOSE x \in S : \A y \in S : x <= y
MaxOf(S) == CHOOSE x \in S : \A y \in S : x >= y

(***************************************************************************)
(* strings.TrimSpace                                                       *)
(***************************************************************************)
IsSpace(c) == c \in {" ", "\n", "\t"}

TrimSpace(s) ==
    LET idx == {i \in 1..Len(s) : ~IsSpace(s[i])}
    IN  IF idx = {} THEN <<>> ELSE SubSeq(s, MinOf(idx), MaxOf(idx))

(***************************************************************************)
(* xmlEscape: encoding/xml EscapeText, character by character              *)
(***************************************************************************)
EscapeChar(c) ==
    CASE c = "\"" -> <<"&", "#", "3", "4", ";">>
      [] c = "'"  -> <<"&", "#", "3", "9", ";">>
      [] c = "&"  -> <<"&", "a", "m", "p", ";">>
      [] c = "<"  -> <<"&", "l", "t", ";">>
      [] c = ">"  -> <<"&", "g", "t", ";">>
      [] c = "\t" -> <<"&", "#", "x", "9", ";">>
      [] c = "\n" -> <<"&", "#", "x", "A", ";">>
      [] OTHER    -> <<c>>

RECURSIVE xmlEscape(_)
xmlEscape(s) == IF s = <<>> THEN <<>> ELSE EscapeChar(Head(s)) \o xmlEscape(Tail(s))

(***************************************************************************)
(* html.UnescapeString: one left-to-right pass; at each "&" the longest    *)
(* known entity is replaced by its character, anything else is copied.     *)
(* The table holds the entities xmlEscape emits, the named forms of the    *)
(* same characters, and the legacy names accepted without a semicolon.     *)
(***************************************************************************)
Entities ==
    { [s |-> <<"&", "a", "m", "p", ";">>, c |-> "&"],
      [s |-> <<"&", "a", "m", "p">>, c |-> "&"],
      [s |-> <<"&", "l", "t", ";">>, c |-> "<"],
      [s |-> <<"&", "l", "t">>, c |-> "<"],
      [s |-> <<"&", "g", "t", ";">>, c |-> ">"],
      [s |-> <<"&", "g", "t">>, c |-> ">"],
      [s |-> <<"&", "q", "u", "o", "t", ";">>, c |-> "\""],
      [s |-> <<"&", "q", "u", "o", "t">>, c |-> "\""],
      [s |-> <<"&", "#", "3", "4", ";">>, c |-> "\""],
      [s |-> <<"&", "#", "3", "9", ";">>, c |-> "'"],
      [s |-> <<"&", "#", "x", "9", ";">>, c |-> "\t"],
      [s |-> <<"&", "#", "x", "A", ";">>, c |-> "\n"] }

IsPrefixAt(e, s, i) ==
    /\ i + Len(e) - 1 <= Len(s)
    /\ \A j \in 1..Len(e) : s[i + j - 1] = e[j]

RECURSIVE UnescapeFrom(_, _)
UnescapeFrom(s, i) ==
    LET amps == {j \in i..Len(s) : s[j] = "&"}
    IN  IF amps = {} THEN SubSeq(s, i, Len(s))
        ELSE LET a     == MinOf(amps)
                 cands == {e \in Entities : IsPrefixAt(e.s, s, a)}
             IN  IF cands = {}
                 THEN SubSeq(s, i, a) \o UnescapeFrom(s, a + 1)
                 ELSE LET e == CHOOSE e \in cands :
                                   \A f \in cands : Len(f.s) <= Len(e.s)
                      IN  SubSeq(s, i, a - 1) \o <<e.c>>
                              \o UnescapeFrom(s, a + Len(e.s))

UnescapeString(s) == UnescapeFrom(s, 1)

(***************************************************************************)
(* cleanXMLValue: trim, drop every tag (<[^>]+>), unescape, trim.          *)
(* The argument is the symbol sequence of the matched inner content.       *)
(***************************************************************************)
RECURSIVE ConcatText(_)
ConcatText(texts) ==
    IF texts = <<>> THEN <<>> ELSE Head(texts).v \o ConcatText(Tail(texts))

TextOf(syms) == ConcatText(SelectSeq(syms, LAMBDA x : x.k = "text"))

IsBlank(syms) ==
    \A i \in 1..Len(syms) :
        syms[i].k = "text" /\ \A j \in 1..Len(syms[i].v) : IsSpace(syms[i].v[j])

cleanXMLValue(syms) ==
    IF IsBlank(syms) THEN <<>>
    ELSE TrimSpace(UnescapeString(TextOf(syms)))

(***************************************************************************)
(* The element patterns  (?is)<P:T\b[^>]*>.*?</P:T>  on a symbol sequence. *)
(* A match starts at an opening or self-closing tag of that name (the      *)
(* class [^>]* also takes the "/" of <P:T/>) and runs, lazily, to the next *)
(* closing tag of that name.  p = "dc" is the dc: form, p = "" the bare    *)
(* form.                                                                   *)
(***************************************************************************)
IsStart(x, p, t) == x.k \in {"open", "self"} /\ x.p = p /\ x.t = t
IsEnd(x, p, t)   == x.k = "close" /\ x.p = p /\ x.t = t

EndsAfter(b, i, p, t) == {j \in (i + 1)..Len(b) : IsEnd(b[j], p, t)}

\* re.Match
HasMatch(b, p, t) ==
    \E i \in 1..Len(b) : IsStart(b[i], p, t) /\ EndsAfter(b, i, p, t) # {}


\* the start positions, from i on, at which the pattern matches
StartsFrom(b, i, p, t) ==
    {s \in i..Len(b) : IsStart(b[s], p, t) /\ EndsAfter(b, s, p, t) # {}}

\* re.ReplaceAll(b, ""): the leftmost match from position i on is dropped,
\* the scan goes on behind it
RECURSIVE RemoveFrom(_, _, _, _)
RemoveFrom(b, i, p, t) ==
    IF StartsFrom(b, i, p, t) = {} THEN SubSeq(b, i, Len(b))
    ELSE LET s == MinOf(StartsFrom(b, i, p, t))
             e == MinOf(EndsAfter(b, s, p, t))
         IN  SubSeq(b, i, s - 1) \o RemoveFrom(b, e + 1, p, t)

RemoveAll(b, p, t) == RemoveFrom(b, 1, p, t)

\* re.FindAllSubmatch: the successive matches, each with the attributes of
\* its start tag and its inner content
RECURSIVE MatchesFrom(_, _, _, _)
MatchesFrom(b, i, p, t) ==
    IF StartsFrom(b, i, p, t) = {} THEN <<>>
    ELSE LET s == MinOf(StartsFrom(b, i, p, t))
             e == MinOf(EndsAfter(b, s, p, t))
         IN  <<[a |-> b[s].a, inner |-> SubSeq(b, s + 1, e - 1)]>>
                 \o MatchesFrom(b, e + 1, p, t)

AllMatches(b, p, t) == MatchesFrom(b, 1, p, t)

(***************************************************************************)
(* Field Reader                                                            *)
(***************************************************************************)
extractFirstTagValue(metadata, tag) ==
    IF HasMatch(metadata, "dc", tag)
    THEN cleanXMLValue(AllMatches(metadata, "dc", tag)[1].inner)
    ELSE IF HasMatch(metadata, "", tag)
    THEN cleanXMLValue(AllMatches(metadata, "", tag)[1].inner)
    ELSE <<>>

\* the loop of extractAllTagValues over the collected matches
RECURSIVE DedupeValues(_, _)
DedupeValues(vals, out) ==
    IF vals = <<>> THEN out
    ELSE LET v == Head(vals)
         IN  IF v = <<>> \/ (\E i \in 1..Len(out) : out[i] = v)
             THEN DedupeValues(Tail(vals), out)
             ELSE DedupeValues(Tail(vals), Append(out, v))

extractAllTagValues(metadata, tag) ==
    LET ms == AllMatches(metadata, "dc", tag) \o AllMatches(metadata, "", tag)
    IN  DedupeValues([i \in 1..Len(ms) |-> cleanXMLValue(ms[i].inner)], <<>>)

Lower(c) ==
    CASE c = "I" -> "i" [] c = "S" -> "s" [] c = "B" -> "b" [] c = "N" -> "n"
      [] OTHER -> c

ContainsIsbn(s) ==
    \E i \in 1..(Len(s) - 3) :
        /\ Lower(s[i]) = "i" /\ Lower(s[i + 1]) = "s"
        /\ Lower(s[i + 2]) = "b" /\ Lower(s[i + 3]) = "n"

\* the attribute texts of the model that contain "isbn" when lowered
IsbnAttrs == {"opf:scheme=\"ISBN\"", "id=\"isbn\""}

RECURSIVE PreferredFrom(_, _)
PreferredFrom(ms, first) ==
    IF ms = <<>> THEN [found |-> FALSE, v |-> first]
    ELSE LET value == cleanXMLValue(Head(ms).inner)
             first2 == IF first = <<>> THEN value ELSE first
         IN  IF value = <<>> THEN PreferredFrom(Tail(ms), first)
             ELSE IF Head(ms).a \in IsbnAttrs \/ ContainsIsbn(value)
                  THEN [found |-> TRUE, v |-> value]
                  ELSE PreferredFrom(Tail(ms), first2)

extractPreferredIdentifier(metadata) ==
    LET r1 == PreferredFrom(AllMatches(metadata, "dc", "identifier"), <<>>)
    IN  IF r1.found THEN r1.v
        ELSE PreferredFrom(AllMatches(metadata, "", "identifier"), r1.v).v

extractMetaContentByName(metadata, name) ==
    LET idx == {i \in 1..Len(metadata) :
                    metadata[i].k = "meta" /\ metadata[i].n = name}
    IN  IF idx = {} THEN <<>>
        ELSE cleanXMLValue(ToSyms(metadata[MinOf(idx)].v))

(***************************************************************************)
(* Field Mutator.  Each primitive takes and returns the pair               *)
(* [m |-> metadata block, c |-> changed] that the code threads from one    *)
(* field operation to the next.                                            *)
(***************************************************************************)
\* "\n<P:T>escaped</P:T>"
NewElement(p, t, value) ==
    <<Text(<<NL>>), Open(p, t)>> \o ToSyms(xmlEscape(value)) \o <<Close(p, t)>>

\* "\n<meta name=\"N\" content=\"escaped\"/>"
NewMeta(name, value) == <<Text(<<NL>>), Meta("d", name, xmlEscape(value))>>

\* one pattern of a mutator:  if re.Match(metadata) { metadata =
\* re.ReplaceAll(metadata, ""); changed = true }.  s carries the block, the
\* flag and the forms found so far, in order.
StripPattern(s, p, tag) ==
    IF HasMatch(s.m, p, tag)
    THEN [m |-> RemoveAll(s.m, p, tag), c |-> TRUE, found |-> Append(s.found, p)]
    ELSE s

setSingleTag(st, tag, value0) ==
    LET Finish(s, value) ==
            IF s.found # <<>>
            THEN [m |-> IF value # <<>>
                        THEN s.m \o NewElement(s.found[1], tag, value)
                        ELSE s.m,
                  c |-> TRUE]
            ELSE IF value # <<>>
            THEN [m |-> s.m \o NewElement("dc", tag, value), c |-> TRUE]
            ELSE [m |-> s.m, c |-> s.c]
    IN  Finish(StripPattern(
                 StripPattern([m |-> st.m, c |-> st.c, found |-> <<>>], "dc", tag),
                 "", tag),
               TrimSpace(value0))

\* the trim / skip-empty / skip-seen loop of setMultiTag
RECURSIVE CleanValues(_, _)
CleanValues(values, cleaned) ==
    IF values = <<>> THEN cleaned
    ELSE LET Keep(v) ==
                 IF v = <<>> \/ (\E i \in 1..Len(cleaned) : cleaned[i] = v)
                 THEN cleaned
                 ELSE Append(cleaned, v)
         IN  CleanValues(Tail(values), Keep(TrimSpace(Head(values))))

RECURSIVE AppendElements(_, _, _, _)
AppendElements(metadata, p, t, vals) ==
    IF vals = <<>> THEN metadata
    ELSE AppendElements(metadata \o NewElement(p, t, Head(vals)), p, t, Tail(vals))

setMultiTag(st, tag, values) ==
    LET Finish(s, cleaned) ==
            [m |-> AppendElements(s.m,
                                  IF "" \in {s.found[i] : i \in 1..Len(s.found)}
                                  THEN "" ELSE "dc",
                                  tag, cleaned),
             c |-> s.c \/ cleaned # <<>>]
    IN  Finish(StripPattern(
                 StripPattern([m |-> st.m, c |-> st.c, found |-> <<>>], "dc", tag),
                 "", tag),
               CleanValues(values, <<>>))

\* <meta ... name="N" ...> with the name in double (q = "d") or single
\* (q = "s") quotes
IsMetaNamed(x, q, name) == x.k = "meta" /\ x.q = q /\ x.n = name

RemoveMeta(b, q, name) == SelectSeq(b, LAMBDA x : ~IsMetaNamed(x, q, name))

HasMeta(b, q, name) == \E i \in 1..Len(b) : IsMetaNamed(b[i], q, name)

\* one quoting of setMetaNameContent:  if re.Match { ReplaceAll; changed }
StripMeta(s, q, name) ==
    IF HasMeta(s.m, q, name)
    THEN [m |-> RemoveMeta(s.m, q, name), c |-> TRUE]
    ELSE s

setMetaNameContent(st, name, value0) ==
    LET Finish(s, value) ==
            IF value # <<>>
            THEN [m |-> s.m \o NewMeta(name, value), c |-> TRUE]
            ELSE s
    IN  Finish(StripMeta(StripMeta([m |-> st.m, c |-> st.c], "d", name), "s", name),
               TrimSpace(value0))

(***************************************************************************)
(* Metadata Block Locator:                                                 *)
(*   (?is)<(?:ns:)?metadata\b[^>]*>(.*?)</(?:ns:)?metadata>                *)
(* start and end are the positions of the two tags; the inner block lies   *)
(* strictly between them.                                                  *)
(***************************************************************************)
IsMetadataStart(x) == x.k \in {"open", "self"} /\ x.t = "metadata"
IsMetadataEnd(x)   == x.k = "close" /\ x.t = "metadata"

MetadataEndsAfter(content, i) ==
    {j \in (i + 1)..Len(content) : IsMetadataEnd(content[j])}

MetadataStarts(content) ==
    {i \in 1..Len(content) :
        IsMetadataStart(content[i]) /\ MetadataEndsAfter(content, i) # {}}

\* a locator that treats a missing metadata element as an empty block at
\* the end of the document
metadataInnerBlockLenient(content) ==
    IF MetadataStarts(content) = {}
    THEN [err |-> "", inner |-> <<>>, start |-> Len(content), end |-> Len(content) + 1]
    ELSE LET i == MinOf(MetadataStarts(content))
             j == MinOf(MetadataEndsAfter(content, i))
         IN  [err |-> "", inner |-> SubSeq(content, i + 1, j - 1),
              start |-> i, end |-> j]

metadataInnerBlock(content) ==
    IF MetadataStarts(content) = {}
    THEN [err |-> "errMetadataTagNotFound", inner |-> <<>>, start |-> 0, end |-> 0]
    ELSE LET i == MinOf(MetadataStarts(content))
             j == MinOf(MetadataEndsAfter(content, i))
         IN  [err |-> "", inner |-> SubSeq(content, i + 1, j - 1),
              start |-> i, end |-> j]

(***************************************************************************)
(* rewriteOPFMetadata: the ten field operations in order, the changed flag *)
(* threaded through them; the sentinel errMetadataTagNotFound is returned  *)
(* both when no metadata block exists and when nothing changed.            *)
(***************************************************************************)
rewriteOPFMetadata(opfContent, update) ==
    LET Fields(metadata) ==
            setMetaNameContent(
              setMetaNameContent(
                setMultiTag(
                  setSingleTag(
                    setSingleTag(
                      setSingleTag(
                        setSingleTag(
                          setSingleTag(
                            setSingleTag(
                              setSingleTag([m |-> metadata, c |-> FALSE],
                                           "title", update.Title),
                              "creator", update.Creator),
                            "language", update.Language),
                          "identifier", update.Identifier),
                        "publisher", update.Publisher),
                      "date", update.Date),
                    "description", update.Description),
                  "subject", update.Subjects),
                "calibre:series", update.Series),
              "calibre:series_index", update.SeriesIndex)
        Splice(blk, r) ==
            IF ~r.c THEN [err |-> "errMetadataTagNotFound", content |-> <<>>]
            ELSE [err |-> "",
                  content |-> SubSeq(opfContent, 1, blk.start) \o r.m
                                 \o SubSeq(opfContent, blk.end, Len(opfContent))]
        Rewrite(blk) ==
            IF blk.err # "" THEN [err |-> blk.err, content |-> <<>>]
            ELSE Splice(blk, Fields(blk.inner))
    IN  Rewrite(metadataInnerBlock(opfContent))

\* the field extraction of ExtractLiveMetadata, on the package document
NoMetadata ==
    [Title |-> <<>>, Author |-> <<>>, Language |-> <<>>, Identifier |-> <<>>,
     Publisher |-> <<>>, Date |-> <<>>, Description |-> <<>>, Subjects |-> <<>>,
     Series |-> <<>>, SeriesIndex |-> <<>>]

LiveMetadataOf(opfContent) ==
    LET Fields(mb) ==
            [Title       |-> extractFirstTagValue(mb, "title"),
             Author      |-> extractFirstTagValue(mb, "creator"),
             Language    |-> extractFirstTagValue(mb, "language"),
             Identifier  |-> extractPreferredIdentifier(mb),
             Publisher   |-> extractFirstTagValue(mb, "publisher"),
             Date        |-> extractFirstTagValue(mb, "date"),
             Description |-> extractFirstTagValue(mb, "description"),
             Subjects    |-> extractAllTagValues(mb, "subject"),
             Series      |-> extractMetaContentByName(mb, "calibre:series"),
             SeriesIndex |-> extractMetaContentByName(mb, "calibre:series_index")]
        Read(blk) ==
            IF blk.err # "" THEN [err |-> blk.err, meta |-> NoMetadata]
            ELSE [err |-> "", meta |-> Fields(blk.inner)]
    IN  Read(metadataInnerBlock(opfContent))

(***************************************************************************)
(* Zip archives.  An entry name is a sequence of path segments, a segment  *)
(* being a stem and an extension ("cover" + "jpg").  An archive is the     *)
(* sequence of its entries; the data of an entry is a sequence of symbols: *)
(* a package document, one container symbol, one image symbol or one       *)
(* symbol of opaque bytes.                                                 *)
(***************************************************************************)
Seg(stem, ext) == [stem |-> stem, ext |-> ext]
Dots == Seg("..", "")
Dot  == Seg(".", "")

Entry(name, data) == [name |-> name, data |-> data, torn |-> FALSE]

Item(id, href, mt, props) ==
    [k |-> "item", id |-> id, href |-> href, mt |-> mt, props |-> props]
ContainerSym(ok, roots) == [k |-> "container", ok |-> ok, roots |-> roots]
Image(c, fmt, w, h) ==
    [k |-> "img", c |-> c, fmt |-> fmt, w |-> w, h |-> h, enc |-> "src"]
Bytes(c) == [k |-> "bin", c |-> c]

\* strings.ToLower on the stems, extensions and attribute values in use
LowerStr(s) ==
    CASE s = "Cover" -> "cover"
      [] s = "JPG" -> "jpg"
      [] s = "PNG" -> "png"
      [] s = "OPF" -> "opf"
      [] s = "EPUB" -> "epub"
      [] s = "Cover-Image" -> "cover-image"
      [] s = "Image/JPEG" -> "image/jpeg"
      [] OTHER -> s

\* strings.Contains(lower, "cover") || strings.Contains(lower, "folder")
HasCoverWord(s) ==
    LowerStr(s) \in {"cover", "covers", "mycover", "folder", "cover-image"}

\* strings.Contains(lower(properties), "cover-image")
HasCoverImage(props) == LowerStr(props) \in {"cover-image", "cover-image svg"}

BaseOf(name) == name[Len(name)]
DirOfName(name) == SubSeq(name, 1, Len(name) - 1)

\* filepath.Clean on a relative path
RECURSIVE CleanFrom(_, _, _)
CleanFrom(name, i, out) ==
    IF i > Len(name) THEN out
    ELSE IF name[i] = Dot THEN CleanFrom(name, i + 1, out)
    ELSE IF name[i] = Dots /\ out # <<>> /\ out[Len(out)] # Dots
         THEN CleanFrom(name, i + 1, SubSeq(out, 1, Len(out) - 1))
    ELSE CleanFrom(name, i + 1, Append(out, name[i]))

normalizeZipPath(name) == CleanFrom(name, 1, <<>>)

\* filepath.Join(dir, href)
JoinPath(dir, href) == CleanFrom(dir \o href, 1, <<>>)

isPreferredCoverFilename(name) ==
    /\ name # <<>>
    /\ LowerStr(BaseOf(name).stem) = "cover"
    /\ LowerStr(BaseOf(name).ext) \in {"jpg", "jpeg", "png"}

ContainerName == <<Seg("META-INF", ""), Seg("container", "xml")>>

readZipEntry(files, name) ==
    LET hits == {i \in 1..Len(files) :
                    normalizeZipPath(files[i].name) = normalizeZipPath(name)}
    IN  IF hits = {} THEN [err |-> "ErrNotExist", data |-> <<>>]
        ELSE [err |-> "", data |-> files[MinOf(hits)].data]

findOPFPath(files) ==
    LET cs == {i \in 1..Len(files) : files[i].name = ContainerName}
        os == {i \in 1..Len(files) :
                  LowerStr(BaseOf(files[i].name).ext) = "opf"}
    IN  IF cs # {}
        THEN LET c == files[MinOf(cs)].data
             IN  IF Len(c) # 1 \/ c[1].k # "container" \/ ~c[1].ok
                 THEN [err |-> "xml", path |-> <<>>]
                 ELSE IF Len(c[1].roots) > 0
                      THEN [err |-> "", path |-> c[1].roots[1]]
                      ELSE [err |-> "", path |-> <<>>]
        ELSE IF os # {} THEN [err |-> "", path |-> files[MinOf(os)].name]
        ELSE [err |-> "", path |-> <<>>]

\* xml.Unmarshal into OPF: the meta tags of the metadata element and the
\* items of the manifest element, whatever the namespace prefix
IsElementStart(x, t) == x.k = "open" /\ x.t = t
ElementSpan(doc, t) ==
    LET starts == {i \in 1..Len(doc) : IsElementStart(doc[i], t)}
    IN  IF starts = {} THEN <<>>
        ELSE LET i    == MinOf(starts)
                 ends == {j \in (i + 1)..Len(doc) : doc[j].k = "close" /\ doc[j].t = t}
             IN  IF ends = {} THEN <<>> ELSE SubSeq(doc, i + 1, MinOf(ends) - 1)

IsPackageDoc(doc) == doc # <<>> /\ IsElementStart(doc[1], "package")

UnmarshalOPF(doc) ==
    IF ~IsPackageDoc(doc)
    THEN [err |-> "xml", Manifest |-> <<>>, Meta |-> <<>>]
    ELSE [err |-> "",
          Manifest |-> SelectSeq(ElementSpan(doc, "manifest"), LAMBDA x : x.k = "item"),
          Meta     |-> SelectSeq(ElementSpan(doc, "metadata"), LAMBDA x : x.k = "meta")]

\* the index of the first element of a loop that meets its test, 0 if none
FirstOf(hits) == IF hits = {} THEN 0 ELSE MinOf(hits)

detectCurrentCoverZipPath(opf0, opfDir) ==
    LET m   == opf0.Manifest
        pre == FirstOf({n \in 1..Len(m) : isPreferredCoverFilename(JoinPath(opfDir, m[n].href))})
        ci  == FirstOf({n \in 1..Len(m) : HasCoverImage(m[n].props)})
        cm  == FirstOf({n \in 1..Len(opf0.Meta) : LowerStr(opf0.Meta[n].n) = "cover"})
        cid == IF cm = 0 THEN <<>> ELSE TrimSpace(opf0.Meta[cm].v)
        byId == IF cid = <<>> THEN 0
                ELSE FirstOf({n \in 1..Len(m) : TrimSpace(m[n].id) = cid})
    IN  IF pre # 0 THEN JoinPath(opfDir, m[pre].href)
        ELSE IF ci # 0 THEN JoinPath(opfDir, m[ci].href)
        ELSE IF byId # 0 THEN JoinPath(opfDir, m[byId].href)
        ELSE <<>>

collectExistingCoverPaths(opf0, opfDir) ==
    LET m       == opf0.Manifest
        listed  == {JoinPath(opfDir, m[i].href) : i \in
                       {j \in 1..Len(m) :
                           /\ JoinPath(opfDir, m[j].href) # <<>>
                           /\ \/ HasCoverImage(m[j].props)
                              \/ isPreferredCoverFilename(JoinPath(opfDir, m[j].href))}}
        current == detectCurrentCoverZipPath(opf0, opfDir)
    IN  listed \cup (IF current # <<>> THEN {current} ELSE {})

relativeHrefFromOPFDir(opfDir, fullPath) ==
    LET d == normalizeZipPath(opfDir)
        f == normalizeZipPath(fullPath)
    IN  IF d = <<>> THEN f
        ELSE IF Len(f) > Len(d) /\ SubSeq(f, 1, Len(d)) = d
             THEN SubSeq(f, Len(d) + 1, Len(f))
        ELSE <<BaseOf(f)>>

(***************************************************************************)
(* rewriteOPFCoverReference: one <meta name="cover"> and one manifest item *)
(* for the canonical cover                                                 *)
(***************************************************************************)
CoverImageId == <<"c", "o", "v", "e", "r", "-", "i", "m", "a", "g", "e">>

LowerChars(s) == [i \in 1..Len(s) |-> Lower(s[i])]

\* the first <manifest ...> ... </manifest> of the document (no prefix)
ManifestStarts(doc) ==
    {i \in 1..Len(doc) :
        /\ doc[i].k \in {"open", "self"} /\ doc[i].t = "manifest" /\ doc[i].p = ""
        /\ \E j \in (i + 1)..Len(doc) : doc[j] = Close("", "manifest")}

\* a rewrite that strips prior cover items by their id only
IsCoverItemById(x) ==
    /\ x.k = "item"
    /\ LowerChars(TrimSpace(x.id)) = CoverImageId

IsCoverItem(x) ==
    /\ x.k = "item"
    /\ \/ LowerChars(TrimSpace(x.id)) = CoverImageId
       \/ HasCoverImage(x.props)
       \/ isPreferredCoverFilename(x.href)

rewriteOPFCoverReference(opfContent, canonicalHref) ==
    LET blk     == metadataInnerBlock(opfContent)
        newMeta == SelectSeq(blk.inner,
                             LAMBDA x : ~(x.k = "meta" /\ LowerStr(x.n) = "cover"))
                      \o <<Text(<<NL>>), Meta("d", "cover", CoverImageId)>>
        updated == SubSeq(opfContent, 1, blk.start) \o newMeta
                      \o SubSeq(opfContent, blk.end, Len(opfContent))
    IN  IF blk.err # "" THEN [err |-> blk.err, content |-> <<>>]
        ELSE IF ManifestStarts(updated) = {}
        THEN [err |-> "manifest section not found in OPF", content |-> <<>>]
        ELSE LET i    == MinOf(ManifestStarts(updated))
                 j    == MinOf({n \in (i + 1)..Len(updated) :
                                   updated[n] = Close("", "manifest")})
                 kept == SelectSeq(SubSeq(updated, i + 1, j - 1),
                                   LAMBDA x : ~IsCoverItem(x))
             IN  [err |-> "",
                  content |-> SubSeq(updated, 1, i) \o kept
                      \o <<Text(<<NL>>),
                           Item(CoverImageId, canonicalHref, "image/jpeg", "cover-image")>>
                      \o SubSeq(updated, j, Len(updated))]

\* image.Decode followed by jpeg.Encode with quality 90
Decodable(raw) == Len(raw) = 1 /\ raw[1].k = "img"
EncodeJPEG(raw) == <<[raw[1] EXCEPT !.fmt = "jpeg", !.enc = "q90"]>>

(***************************************************************************)
(* ListCoverOptions: the decodable image items of the manifest, the        *)
(* suitable ones when there are any                                        *)
(***************************************************************************)
MinCoverWidth  == 240
MinCoverHeight == 320

\* width/height within [0.55, 0.85], in whole numbers
isSuitableCoverDimension(width, height) ==
    /\ width >= MinCoverWidth
    /\ height >= MinCoverHeight
    /\ 100 * width >= 55 * height
    /\ 100 * width <= 85 * height

\* image.DecodeConfig succeeds on the bytes and yields positive dimensions
HasConfig(raw) == Len(raw) = 1 /\ raw[1].k = "img" /\ raw[1].w > 0 /\ raw[1].h > 0

\* one iteration of the loop over the manifest: the option of the item, or
\* nothing when the loop continues
CoverOptionOf(files, opfDir, item, currentCoverPath) ==
    LET Opt(mt, zipPath, raw) ==
            IF mt \notin {"image/jpeg", "image/jpg", "image/png"} THEN <<>>
            ELSE IF zipPath = <<>> THEN <<>>
            ELSE IF raw.err # "" THEN <<>>
            ELSE IF ~HasConfig(raw.data) THEN <<>>
            ELSE <<[ZipPath   |-> zipPath,
                    Name      |-> BaseOf(zipPath),
                    MediaType |-> mt,
                    Width     |-> raw.data[1].w,
                    Height    |-> raw.data[1].h,
                    IsCurrent |-> zipPath = currentCoverPath]>>
    IN  Opt(LowerStr(item.mt), JoinPath(opfDir, item.href),
            readZipEntry(files, JoinPath(opfDir, item.href)))

RECURSIVE CoverOptionsFrom(_, _, _, _, _)
CoverOptionsFrom(files, opfDir, manifest, i, currentCoverPath) ==
    IF i > Len(manifest) THEN <<>>
    ELSE CoverOptionOf(files, opfDir, manifest[i], currentCoverPath)
            \o CoverOptionsFrom(files, opfDir, manifest, i + 1, currentCoverPath)

\* a lister that returns the suitable options even when there are none
SuitableOnly(all) ==
    SelectSeq(all, LAMBDA o : isSuitableCoverDimension(o.Width, o.Height))

\* lines 842-845: the suitable options when there are any, else all
SuitableOrAll(all) ==
    IF SelectSeq(all, LAMBDA o : isSuitableCoverDimension(o.Width, o.Height)) # <<>>
    THEN SelectSeq(all, LAMBDA o : isSuitableCoverDimension(o.Width, o.Height))
    ELSE all

ListCoverOptions(files) ==
    LET Fail(e) == [err |-> e, opts |-> <<>>]
        List(opfDir, opf0) ==
            [err |-> "",
             opts |-> SuitableOrAll(
                        CoverOptionsFrom(files, opfDir, opf0.Manifest, 1,
                                         detectCurrentCoverZipPath(opf0, opfDir)))]
        Parsed(f, opf0) ==
            IF opf0.err # "" THEN Fail(opf0.err) ELSE List(DirOfName(f.path), opf0)
        Read(f, content) ==
            IF content.err # "" THEN Fail(content.err)
            ELSE Parsed(f, UnmarshalOPF(content.data))
        Found(f) ==
            IF f.err # "" THEN Fail(f.err)
            ELSE IF f.path = <<>> THEN Fail("opf package document not found")
            ELSE Read(f, readZipEntry(files, f.path))
    IN  Found(findOPFPath(files))

(***************************************************************************)
(* What the two writers compute before they create their temporary file    *)
(***************************************************************************)
NoPlan ==
    [err |-> "", opfPath |-> <<>>, updatedOPF |-> <<>>, rewritten |-> <<>>,
     canonical |-> <<>>, removePaths |-> {}]

\* UpdateEPUBMetadata, up to os.CreateTemp
PrepareMetadata(files) ==
    LET f == findOPFPath(files)
    IN  IF f.err # "" THEN [NoPlan EXCEPT !.err = f.err]
        ELSE IF f.path = <<>>
        THEN [NoPlan EXCEPT !.err = "opf package document not found"]
        ELSE [NoPlan EXCEPT !.opfPath = f.path]

\* WriteCoverToEPUB, up to os.CreateTemp, and the removePaths it computes
\* right after
PrepareCover(files, selectedZipPath) ==
    LET f         == findOPFPath(files)
        content   == readZipEntry(files, f.path)
        opf0      == UnmarshalOPF(content.data)
        opfDir    == DirOfName(f.path)
        canonical == normalizeZipPath(JoinPath(opfDir, <<Seg("cover", "jpg")>>))
        href      == relativeHrefFromOPFDir(opfDir, canonical)
        upd       == rewriteOPFCoverReference(content.data, href)
        sel       == readZipEntry(files, normalizeZipPath(selectedZipPath))
    IN  IF f.err # "" THEN [NoPlan EXCEPT !.err = f.err]
        ELSE IF f.path = <<>>
        THEN [NoPlan EXCEPT !.err = "opf package document not found"]
        ELSE IF content.err # "" THEN [NoPlan EXCEPT !.err = content.err]
        ELSE IF opf0.err # "" THEN [NoPlan EXCEPT !.err = opf0.err]
        ELSE IF upd.err # "" THEN [NoPlan EXCEPT !.err = upd.err]
        ELSE IF sel.err # "" THEN [NoPlan EXCEPT !.err = sel.err]
        ELSE IF ~Decodable(sel.data)
        THEN [NoPlan EXCEPT !.err = "selected cover decode failed"]
        ELSE [err |-> "", opfPath |-> f.path, updatedOPF |-> upd.content,
              rewritten |-> EncodeJPEG(sel.data), canonical |-> canonical,
              removePaths |-> collectExistingCoverPaths(opf0, opfDir) \ {canonical}]

\* a copy loop that creates the header of an entry but loses its content
MetadataEntryOutEmpty(f, plan, update) ==
    IF f.name = plan.opfPath
    THEN LET Out(r) == [err |-> r.err, out |-> <<[f EXCEPT !.data = r.content]>>]
         IN  Out(rewriteOPFMetadata(f.data, update))
    ELSE [err |-> "", out |-> <<[f EXCEPT !.data = <<>>]>>]

\* what one iteration of the copy loop writes for entry f: the sequence of
\* entries (none or one) appended to the new archive, or the error of
\* rewriteOPFMetadata
MetadataEntryOut(f, plan, update) ==
    IF f.name = plan.opfPath
    THEN LET Out(r) == [err |-> r.err, out |-> <<[f EXCEPT !.data = r.content]>>]
         IN  Out(rewriteOPFMetadata(f.data, update))
    ELSE [err |-> "", out |-> <<f>>]

CoverEntryOut(f, plan) ==
    LET normalized == normalizeZipPath(f.name)
    IN  IF normalized = normalizeZipPath(plan.opfPath)
        THEN <<[f EXCEPT !.data = plan.updatedOPF]>>
        ELSE IF normalized = plan.canonical
        THEN <<[f EXCEPT !.data = plan.rewritten]>>
        ELSE IF normalized \in plan.removePaths THEN <<>>
        ELSE <<f>>

(***************************************************************************)
(* Inputs of the field engine: package documents and updates               *)
(***************************************************************************)
MaxPieces == 2
MaxWrites == 2

S(str) == ToSyms(str)

\* the pieces a metadata block is put together from: managed elements in
\* both forms, a self-closing one, an unmanaged element, a comment, managed
\* and unmanaged meta tags
Pieces ==
    { <<Open("dc", "title")>> \o S(<<"O", "l", "d">>) \o <<Close("dc", "title")>>,
      <<Open("", "title")>> \o S(<<"B", "a", "r", "e">>) \o <<Close("", "title")>>,
      <<SelfTag("dc", "title")>>,
      <<SelfTag("dc", "subject")>>,
      <<Open("dc", "rights")>> \o S(<<"C", "C">>) \o <<Close("dc", "rights")>>,
      <<Text(<<NL, " ">>), Cmt("c1")>>,
      <<Open("dc", "subject")>> \o S(<<"x">>) \o <<Close("dc", "subject")>>,
      <<Open("", "subject")>> \o S(<<"y">>) \o <<Close("", "subject")>>,
      <<Meta("d", "calibre:series", <<"S", "1">>),
        Meta("s", "calibre:series_index", <<"1">>)>>,
      <<Meta("d", "cover", <<"i", "d">>)>> }

RECURSIVE BlocksOf(_)
BlocksOf(n) ==
    IF n = 0 THEN {<<>>}
    ELSE BlocksOf(n - 1) \cup {b \o p : b \in BlocksOf(n - 1), p \in Pieces}

DocOf(block) ==
    <<Open("", "package"), Open("opf", "metadata")>> \o block
        \o <<Close("opf", "metadata"), Open("", "manifest"), Close("", "manifest"),
             Close("", "package")>>

\* a package document without a metadata element
DocNoMetadata ==
    <<Open("", "package"), Open("", "manifest"), Close("", "manifest"),
      Close("", "package")>>

InitDocs == {DocOf(b) : b \in BlocksOf(MaxPieces)} \cup {DocNoMetadata}

NoUpdate ==
    [Title |-> <<>>, Creator |-> <<>>, Language |-> <<>>, Identifier |-> <<>>,
     Publisher |-> <<>>, Date |-> <<>>, Description |-> <<>>, Subjects |-> <<>>,
     Series |-> <<>>, SeriesIndex |-> <<>>]

\* every field set, with the XML-special characters & < > " ' in the values
FullUpdate ==
    [Title       |-> <<"a", "&", "<", "b", ">", "\"", "'">>,
     Creator     |-> <<"v", " ", "w">>,
     Language    |-> <<"e", "n">>,
     Identifier  |-> <<"&", "l", "t", ";">>,
     Publisher   |-> <<"P">>,
     Date        |-> <<"2", "0">>,
     Description |-> <<"<", "p", ">", "d", "<", "/", "p", ">">>,
     Subjects    |-> << <<"x">>, <<" ", "x">>, <<>>, <<"a", "&", "b">> >>,
     Series      |-> <<"S", "<", "2", ">">>,
     SeriesIndex |-> <<"2">>]

Updates ==
    { NoUpdate,
      [NoUpdate EXCEPT !.Title = <<"N", "e", "w">>],
      [NoUpdate EXCEPT !.Title = <<"N", "e", "w">>, !.Creator = <<" ", "B", "o", "b", " ">>],
      [NoUpdate EXCEPT !.Title = <<" ", NL>>],
      [NoUpdate EXCEPT !.Subjects = << <<"z">>, <<"z">> >>],
      [NoUpdate EXCEPT !.Series = <<"S", "2">>],
      [NoUpdate EXCEPT !.SeriesIndex = <<"3">>, !.Description = <<"d">>],
      FullUpdate }

TagValues == { <<>>, <<"N", "e", "w">>, <<" ", "a", "&", "<", " ">> }

SingleTags == {"title", "creator"}

(***************************************************************************)
(* Inputs of the archive rewriter: EPUB files, updates, cover selections   *)
(***************************************************************************)
MaxCalls == 2

OEBPS  == Seg("OEBPS", "")
Images == Seg("images", "")

nMime      == <<Seg("mimetype", "")>>
nOpf       == <<OEBPS, Seg("content", "opf")>>
nRootOpf   == <<Seg("Content", "OPF")>>
nCh1       == <<OEBPS, Seg("ch1", "xhtml")>>
nImg1      == <<OEBPS, Images, Seg("img1", "png")>>
nSmall     == <<OEBPS, Images, Seg("small", "jpg")>>
nFront     == <<OEBPS, Images, Seg("front", "jpg")>>
nCanonical == <<OEBPS, Seg("cover", "jpg")>>
nOldCover  == <<OEBPS, Images, Seg("Cover", "PNG")>>
nRootImg   == <<Images, Seg("img1", "png")>>

FrontId == <<"f", "1">>

DocWith(block, items) ==
    <<Open("", "package"), Open("opf", "metadata")>> \o block
        \o <<Close("opf", "metadata"), Open("", "manifest")>> \o items
        \o <<Close("", "manifest"), Close("", "package")>>

bTitle ==
    <<Text(<<NL>>), Open("dc", "title")>> \o S(<<"O", "l", "d">>)
        \o <<Close("dc", "title"), Cmt("c1")>>
bPlain == <<Text(<<NL, " ">>), Cmt("c1")>>
bSelf  == <<SelfTag("dc", "title"), Cmt("c1")>>

iCh1      == Item(<<"c", "h">>, <<Seg("ch1", "xhtml")>>, "application/xhtml+xml", "")
iImg1     == Item(<<"i", "1">>, <<Images, Seg("img1", "png")>>, "image/png", "")
iSmall    == Item(<<"i", "2">>, <<Images, Seg("small", "jpg")>>, "image/jpeg", "")
iFront    == Item(FrontId, <<Images, Seg("front", "jpg")>>, "Image/JPEG", "")
iCanon    == Item(CoverImageId, <<Seg("cover", "jpg")>>, "image/jpeg", "cover-image")
iOldCover == Item(<<"o", "c">>, <<Images, Seg("Cover", "PNG")>>, "image/png", "")

eMime     == Entry(nMime, <<Bytes("application/epub+zip")>>)
eCont(ok, roots) == Entry(ContainerName, <<ContainerSym(ok, roots)>>)
eCh1      == Entry(nCh1, <<Bytes("chapter")>>)
eImg1     == Entry(nImg1, <<Image("A", "png", 300, 450)>>)
eSmall    == Entry(nSmall, <<Image("B", "jpeg", 100, 100)>>)
eFront    == Entry(nFront, <<Image("C", "jpeg", 600, 800)>>)
eCanon    == Entry(nCanonical, <<Image("D", "jpeg", 300, 400)>>)
eOldCover == Entry(nOldCover, <<Image("E", "png", 320, 480)>>)

\* an EPUB 2 book: the cover is declared by the meta pointer
ArchiveMetaCover ==
    <<eMime, eCont(TRUE, <<nOpf>>),
      Entry(nOpf, DocWith(bTitle \o <<Meta("d", "cover", FrontId)>>,
                          <<iCh1, iImg1, iFront>>)),
      eCh1, eImg1, eFront>>

\* a book that already has the canonical cover and a second cover-named image
ArchiveCanonical ==
    <<eCont(TRUE, <<nOpf>>), eCanon,
      Entry(nOpf, DocWith(bTitle, <<iCanon, iOldCover, iSmall, iCh1>>)),
      eOldCover, eSmall, eCh1>>

\* no container.xml: the package document is found by its suffix
ArchiveNoContainer ==
    <<Entry(nRootOpf, DocWith(bPlain, <<Item(<<"i", "1">>, nRootImg, "image/png", "")>>)),
      Entry(nRootImg, <<Image("A", "png", 300, 450)>>)>>

\* container.xml names a path no entry has
ArchiveMissingOpf ==
    <<eCont(TRUE, << <<OEBPS, Seg("missing", "opf")>> >>),
      Entry(nOpf, DocWith(bTitle, <<iCh1>>)), eCh1>>

\* container.xml names the package document as ./OEBPS/content.opf
ArchiveDotPath ==
    <<eCont(TRUE, << <<Dot>> \o nOpf >>),
      Entry(nOpf, DocWith(bTitle, <<iCh1, iImg1>>)), eCh1, eImg1>>

ArchiveBadContainer ==
    <<eCont(FALSE, <<>>), Entry(nOpf, DocWith(bTitle, <<iCh1>>)), eCh1>>

ArchiveNoRootfile ==
    <<eCont(TRUE, <<>>), Entry(nOpf, DocWith(bTitle, <<iCh1>>)), eCh1>>

ArchiveNoMetadata ==
    <<eCont(TRUE, <<nOpf>>),
      Entry(nOpf, <<Open("", "package"), Open("", "manifest"), iCh1, iImg1,
                    Close("", "manifest"), Close("", "package")>>),
      eCh1, eImg1>>

\* a book with several cover markers: two meta pointers (one of them
\* single-quoted and capitalised), an item that has only the id cover-image
\* and an item that has only the cover-image property
iIdOnly   == Item(CoverImageId, <<Images, Seg("front", "jpg")>>, "image/jpeg", "")
iPropOnly == Item(<<"i", "1">>, <<Images, Seg("img1", "png")>>, "image/png", "Cover-Image")

ArchiveManyMarkers ==
    <<eCont(TRUE, <<nOpf>>),
      Entry(nOpf, DocWith(<<Meta("d", "cover", FrontId), Cmt("c1"),
                            Meta("s", "Cover", <<"i", "1">>)>>,
                          <<iCh1, iIdOnly, iPropOnly>>)),
      eCh1, eFront, eImg1>>

\* a metadata block without managed elements
ArchivePlain ==
    <<eCont(TRUE, <<nOpf>>), Entry(nOpf, DocWith(bPlain, <<iCh1, iImg1>>)), eCh1, eImg1>>

\* a metadata block whose only managed element is self-closing
ArchiveSelfClosing ==
    <<eCont(TRUE, <<nOpf>>), Entry(nOpf, DocWith(bSelf, <<iCh1>>)), eCh1>>

Archives ==
    {ArchiveMetaCover, ArchiveCanonical, ArchiveNoContainer, ArchiveMissingOpf,
     ArchiveDotPath, ArchiveBadContainer, ArchiveNoRootfile, ArchiveNoMetadata,
     ArchivePlain, ArchiveSelfClosing, ArchiveManyMarkers}

ArchUpdates ==
    { NoUpdate,
      [NoUpdate EXCEPT !.Title = <<"N", "e", "w">>],
      [NoUpdate EXCEPT !.Title = <<" ", NL>>],
      [NoUpdate EXCEPT !.Subjects = << <<"z">>, <<"z">> >>, !.Series = <<"S", "2">>] }

Selections == {nImg1, nCh1, nCanonical, nOldCover, nRootImg}

(***************************************************************************)
(* The file system: the EPUB file and the temporary files of the writers   *)
(***************************************************************************)
Path(dir, base) == [dir |-> dir, base |-> base]
EpubPath  == Path("lib", "book.epub")
TempPaths == {Path("lib", ".gopds-1.epub"), Path("lib", ".gopds-2.epub"),
              Path("tmp", ".gopds-1.epub")}
AllPaths  == {EpubPath} \cup TempPaths
NoPath    == Path("", "")

NoFile == [exists |-> FALSE, closed |-> FALSE, entries |-> <<>>]
ZipFile(entries) == [exists |-> TRUE, closed |-> TRUE, entries |-> entries]

Writers == {"w1", "w2"}

IdleJob ==
    [kind |-> "none", u |-> NoUpdate, sel |-> <<>>, reader |-> <<>>,
     plan |-> NoPlan, temp |-> NoPath, tempOpen |-> FALSE,
     cleanupTemp |-> FALSE, wroteOPF |-> FALSE, wroteCover |-> FALSE]

NoReturn == [err |-> "", step |-> "", meta |-> NoMetadata]

(***************************************************************************)
(* State of the field engine                                               *)
(***************************************************************************)
VARIABLES opf, before, lastOp, outcome, live, writes

\* State of the archive rewriter: the files on disk; per writer the file as
\* it was when its call began, its position in the code, its locals, the
\* index of the next entry to copy and what it returned; the number of
\* calls made.
VARIABLES disk, orig, pc, job, idx, ret, calls

\* State of the cover locator: the file cover.jpg next to the EPUB, the
\* cache file data/covers/<id>.jpg now and before the call, and the call
\* of SaveCover itself.
VARIABLES sibling, cache, cache0, cov

\* The call of ListCoverOptions under way or returned
VARIABLES listing

(***************************************************************************)
(* State of the callers of the engine: the requests of the interactive     *)
(* editing path and the bulk scan                                          *)
(***************************************************************************)
VARIABLES edits, scan

\* State of the server around the engine: the books table with its
\* connection, the cover cache directory and the library's files with the
\* cover.jpg of their directories; the admin sessions and the
\* clock; the rebuild/rescan job and the library scans under way
VARIABLES catalog, sessions, rebuild

fieldVars == <<opf, before, lastOp, outcome, live, writes>>
archVars  == <<disk, orig, pc, job, idx, ret, calls>>
coverVars == <<sibling, cache, cache0, cov, listing>>
siteVars  == <<catalog, sessions, rebuild>>
hostVars  == <<edits, scan, siteVars>>
vars == <<fieldVars, archVars, coverVars, hostVars>>

\* the field engine alone: no document is loaded
FieldIdle ==
    /\ opf = <<>>
    /\ before = <<>>
    /\ lastOp = [kind |-> "none"]
    /\ outcome = "none"
    /\ live = NoMetadata
    /\ writes = 0

\* the archive rewriter at rest, with the given file at the EPUB path
ArchInitFile(file) ==
    /\ disk = [p \in AllPaths |-> IF p = EpubPath THEN file ELSE NoFile]
    /\ orig = [wr \in Writers |-> file]
    /\ pc = [wr \in Writers |-> "idle"]
    /\ job = [wr \in Writers |-> IdleJob]
    /\ idx = [wr \in Writers |-> 0]
    /\ ret = [wr \in Writers |-> NoReturn]
    /\ calls = 0

ArchInitWith(a) == ArchInitFile(ZipFile(a))

\* the cover locator at rest: no sibling file, no cache file
NoBlob == [kind |-> "absent", data |-> <<>>, partial |-> FALSE]
Blob(data) == [kind |-> "file", data |-> data, partial |-> FALSE]
IdleCover == [pc |-> "idle", version |-> "", source |-> "none", entry |-> 0, err |-> ""]
NoListing == [pc |-> "idle", err |-> "", opts |-> <<>>]

Clients == {"a", "b"}
NoRequest == [pc |-> "idle"]
ZeroStats == [Total |-> 0, Rescanned |-> 0, NoMeta |-> 0, NoCover |-> 0]
NoScan ==
    [pc |-> "idle", walk |-> <<>>, pos |-> 0, stats |-> ZeroStats, tx |-> <<>>,
     covers |-> {}, saveErrors |-> 0, committed |-> FALSE, err |-> ""]

SiteIdle ==
    /\ catalog = [rows |-> <<>>]
    /\ sessions = [tokens |-> {}]
    /\ rebuild = [running |-> FALSE]

HostIdle ==
    /\ edits = [c \in Clients |-> NoRequest]
    /\ scan = NoScan
    /\ SiteIdle

CoverIdle ==
    /\ sibling = NoBlob
    /\ cache = NoBlob
    /\ cache0 = NoBlob
    /\ cov = IdleCover
    /\ listing = NoListing

FieldInit ==
    /\ opf \in InitDocs
    /\ before = opf
    /\ lastOp = [kind |-> "none"]
    /\ outcome = "none"
    /\ live = NoMetadata
    /\ writes = 0
    /\ ArchInitWith(<<>>)
    /\ CoverIdle
    /\ HostIdle

\* rewriteOPFMetadata followed by the read-back of ExtractLiveMetadata
ApplyUpdate(u) ==
    \E r \in {rewriteOPFMetadata(opf, u)} :
        /\ before' = opf
        /\ lastOp' = [kind |-> "update", u |-> u]
        /\ writes' = writes + 1
        /\ UNCHANGED <<hostVars, archVars, coverVars>>
        /\ IF r.err # ""
           THEN /\ outcome' = r.err
                /\ UNCHANGED <<opf, live>>
           ELSE /\ outcome' = "ok"
                /\ opf' = r.content
                /\ live' = LiveMetadataOf(r.content).meta

WriteMetadata ==
    /\ writes = 0
    /\ \E u \in Updates : ApplyUpdate(u)

\* the same update applied once more
RepeatWrite ==
    /\ writes >= 1 /\ writes < MaxWrites
    /\ lastOp.kind = "update" /\ outcome = "ok"
    /\ ApplyUpdate(lastOp.u)

\* one field primitive applied to the metadata block
SetSingleTag ==
    /\ writes = 0
    /\ metadataInnerBlock(opf).err = ""
    /\ \E tag \in SingleTags, value \in TagValues :
         \E blk \in {metadataInnerBlock(opf)} :
         \E r \in {setSingleTag([m |-> blk.inner, c |-> FALSE], tag, value)} :
             /\ before' = opf
             /\ lastOp' = [kind |-> "single", tag |-> tag, value |-> value]
             /\ writes' = writes + 1
             /\ outcome' = IF r.c THEN "changed" ELSE "unchanged"
             /\ opf' = SubSeq(opf, 1, blk.start) \o r.m
                          \o SubSeq(opf, blk.end, Len(opf))
             /\ UNCHANGED <<hostVars, live, archVars, coverVars>>

FieldNext == WriteMetadata \/ RepeatWrite \/ SetSingleTag

SpecFields == FieldInit /\ [][FieldNext]_vars

(***************************************************************************)
(* The archive rewriter: UpdateEPUBMetadata and WriteCoverToEPUB, one      *)
(* action per step that touches the file system.  Every such step can fail *)
(* with an I/O error.                                                      *)
(***************************************************************************)
Init ==
    /\ FieldIdle
    /\ CoverIdle
    /\ HostIdle
    /\ \E a \in Archives : ArchInitWith(a)

\* a return before the temporary file exists: nothing is deferred but the
\* close of the reader
ReturnEarly(wr, err, step) ==
    /\ pc' = [pc EXCEPT ![wr] = "done"]
    /\ ret' = [ret EXCEPT ![wr] = [NoReturn EXCEPT !.err = err, !.step = step]]
    /\ job' = [job EXCEPT ![wr] = IdleJob]
    /\ idx' = [idx EXCEPT ![wr] = 0]
    /\ UNCHANGED disk

OpenReaderOK(file) == file.exists /\ file.closed /\ \A i \in 1..Len(file.entries) : ~file.entries[i].torn

\* UpdateEPUBMetadata, lines 154-166
BeginMetadata(wr) ==
    /\ pc[wr] \in {"idle", "done"}
    /\ calls < MaxCalls
    /\ calls' = calls + 1
    /\ orig' = [orig EXCEPT ![wr] = disk[EpubPath]]
    /\ UNCHANGED <<hostVars, fieldVars, coverVars>>
    /\ \E u \in ArchUpdates, io \in BOOLEAN :
         LET file == disk[EpubPath]
             plan == PrepareMetadata(file.entries)
         IN  IF ~io \/ ~OpenReaderOK(file) THEN ReturnEarly(wr, "io", "openReader")
             ELSE IF plan.err # "" THEN ReturnEarly(wr, plan.err, "prepare")
             ELSE /\ job' = [job EXCEPT ![wr] =
                                [IdleJob EXCEPT !.kind = "meta", !.u = u,
                                                !.reader = file.entries, !.plan = plan]]
                  /\ pc' = [pc EXCEPT ![wr] = "createTemp"]
                  /\ idx' = [idx EXCEPT ![wr] = 1]
                  /\ ret' = [ret EXCEPT ![wr] = NoReturn]
                  /\ UNCHANGED disk

\* WriteCoverToEPUB, lines 880-922, and removePaths of lines 938-939
BeginCover(wr) ==
    /\ pc[wr] \in {"idle", "done"}
    /\ calls < MaxCalls
    /\ calls' = calls + 1
    /\ orig' = [orig EXCEPT ![wr] = disk[EpubPath]]
    /\ UNCHANGED <<hostVars, fieldVars, coverVars>>
    /\ \E sel \in Selections, io \in BOOLEAN :
         LET file == disk[EpubPath]
             plan == PrepareCover(file.entries, sel)
         IN  IF ~io \/ ~OpenReaderOK(file) THEN ReturnEarly(wr, "io", "openReader")
             ELSE IF plan.err # "" THEN ReturnEarly(wr, plan.err, "prepare")
             ELSE /\ job' = [job EXCEPT ![wr] =
                                [IdleJob EXCEPT !.kind = "cover", !.sel = sel,
                                                !.reader = file.entries, !.plan = plan]]
                  /\ pc' = [pc EXCEPT ![wr] = "createTemp"]
                  /\ idx' = [idx EXCEPT ![wr] = 1]
                  /\ ret' = [ret EXCEPT ![wr] = NoReturn]
                  /\ UNCHANGED disk

\* os.CreateTemp(filepath.Dir(epubPath), ...): a fresh name in the
\* directory of the EPUB
CreateTemp(wr) ==
    /\ pc[wr] = "createTemp"
    /\ UNCHANGED <<hostVars, fieldVars, coverVars, orig, idx, calls>>
    /\ \/ /\ ReturnEarly(wr, "io", "createTemp")
       \/ \E p \in TempPaths :
            /\ p.dir = EpubPath.dir
            /\ ~disk[p].exists
            /\ disk' = [disk EXCEPT ![p] = [exists |-> TRUE, closed |-> FALSE,
                                            entries |-> <<>>]]
            /\ job' = [job EXCEPT ![wr].temp = p, ![wr].tempOpen = TRUE,
                                  ![wr].cleanupTemp = TRUE]
            /\ pc' = [pc EXCEPT ![wr] = "loop"]
            /\ UNCHANGED ret

\* what a failed step leaves in the temporary file: the entries written so
\* far, the entry under way cut short when its header was already written,
\* and the directory that the writer.Close() of the error path appends
TempAfterFailure(file, f, headerWritten) ==
    [file EXCEPT !.closed = TRUE,
                 !.entries = IF headerWritten
                             THEN Append(@, [f EXCEPT !.data = <<>>, !.torn = TRUE])
                             ELSE @]

\* an error return after the temporary file was created: the deferred
\* function still has to run
FailStep(wr, err, step, f, headerWritten) ==
    /\ disk' = [disk EXCEPT ![job[wr].temp] = TempAfterFailure(@, f, headerWritten)]
    /\ ret' = [ret EXCEPT ![wr] = [NoReturn EXCEPT !.err = err, !.step = step]]
    /\ pc' = [pc EXCEPT ![wr] = "defer"]
    /\ UNCHANGED <<job, idx>>

\* a writer that streams into the EPUB file itself
AppendInPlace(wr, out) ==
    disk' = [disk EXCEPT ![EpubPath].entries = @ \o out]

AppendToTemp(wr, out) ==
    disk' = [disk EXCEPT ![job[wr].temp].entries = @ \o out]

AfterEntry(wr, next) ==
    /\ idx' = [idx EXCEPT ![wr] = @ + 1]
    /\ pc' = [pc EXCEPT ![wr] = IF idx[wr] = Len(job[wr].reader) THEN next ELSE "loop"]
    /\ UNCHANGED ret

\* one iteration of the loop of UpdateEPUBMetadata, lines 182-223
MetadataEntry(wr) ==
    /\ pc[wr] = "loop" /\ job[wr].kind = "meta"
    /\ idx[wr] <= Len(job[wr].reader)
    /\ UNCHANGED <<hostVars, fieldVars, coverVars, orig, calls>>
    /\ \E f \in {job[wr].reader[idx[wr]]} :
       \E o \in {MetadataEntryOut(f, job[wr].plan, job[wr].u)} :
           \/ FailStep(wr, "io", "header", f, FALSE)
           \/ FailStep(wr, "io", "open", f, TRUE)
           \/ FailStep(wr, "io", "copy", f, TRUE)
           \/ /\ o.err # ""
              /\ FailStep(wr, o.err, "rewrite", f, TRUE)
           \/ /\ o.err = ""
              /\ AppendToTemp(wr, o.out)
              /\ AfterEntry(wr, "closeWriter")
              /\ UNCHANGED job

\* one iteration of the loop of WriteCoverToEPUB, lines 943-997
CoverEntry(wr) ==
    /\ pc[wr] = "loop" /\ job[wr].kind = "cover"
    /\ idx[wr] <= Len(job[wr].reader)
    /\ UNCHANGED <<hostVars, fieldVars, coverVars, orig, calls>>
    /\ LET f       == job[wr].reader[idx[wr]]
           plan    == job[wr].plan
           n       == normalizeZipPath(f.name)
           isOPF   == n = normalizeZipPath(plan.opfPath)
           isCover == ~isOPF /\ n = plan.canonical
           dropped == ~isOPF /\ ~isCover /\ n \in plan.removePaths
       IN  \/ /\ ~dropped
              /\ FailStep(wr, "io", "header", f, FALSE)
           \/ /\ ~dropped /\ ~isOPF /\ ~isCover
              /\ FailStep(wr, "io", "open", f, TRUE)
           \/ /\ ~dropped
              /\ FailStep(wr, "io", "copy", f, TRUE)
           \/ /\ AppendToTemp(wr, CoverEntryOut(f, plan))
              /\ job' = [job EXCEPT ![wr].wroteOPF = @ \/ isOPF,
                                    ![wr].wroteCover = @ \/ isCover]
              /\ AfterEntry(wr, "finish")

\* WriteCoverToEPUB after the loop, lines 999-1013
FinishCover(wr) ==
    /\ pc[wr] = "finish"
    /\ UNCHANGED <<hostVars, fieldVars, coverVars, orig, calls>>
    /\ LET plan == job[wr].plan
           f    == Entry(plan.canonical, plan.rewritten)
       IN  IF ~job[wr].wroteOPF
           THEN FailStep(wr, "opf package document missing during rewrite",
                         "rewrite", f, FALSE)
           ELSE IF job[wr].wroteCover
           THEN /\ pc' = [pc EXCEPT ![wr] = "closeWriter"]
                /\ UNCHANGED <<disk, job, idx, ret>>
           ELSE \/ FailStep(wr, "io", "header", f, FALSE)
                \/ FailStep(wr, "io", "copy", f, TRUE)
                \/ /\ AppendToTemp(wr, <<f>>)
                   /\ pc' = [pc EXCEPT ![wr] = "closeWriter"]
                   /\ UNCHANGED <<job, idx, ret>>

\* an error return that leaves the temporary file as it is
FailPlain(wr, step) ==
    /\ ret' = [ret EXCEPT ![wr] = [NoReturn EXCEPT !.err = "io", !.step = step]]
    /\ pc' = [pc EXCEPT ![wr] = "defer"]
    /\ UNCHANGED <<disk, job, idx>>

\* writer.Close(): the central directory completes the archive
CloseWriter(wr) ==
    /\ pc[wr] = "closeWriter"
    /\ UNCHANGED <<hostVars, fieldVars, coverVars, orig, calls>>
    /\ \/ FailPlain(wr, "closeWriter")
       \/ /\ disk' = [disk EXCEPT ![job[wr].temp].closed = TRUE]
          /\ pc' = [pc EXCEPT ![wr] = "closeTemp"]
          /\ UNCHANGED <<job, idx, ret>>

\* tempFile.Close()
CloseTemp(wr) ==
    /\ pc[wr] = "closeTemp"
    /\ UNCHANGED <<hostVars, fieldVars, coverVars, orig, calls>>
    /\ \/ FailPlain(wr, "closeTemp")
       \/ /\ pc' = [pc EXCEPT ![wr] = "rename"]
          /\ job' = [job EXCEPT ![wr].tempOpen = FALSE]
          /\ UNCHANGED <<disk, idx, ret>>

\* os.Rename(tempPath, epubPath) and cleanupTemp = false
Rename(wr) ==
    /\ pc[wr] = "rename"
    /\ UNCHANGED <<hostVars, fieldVars, coverVars, orig, calls>>
    /\ \/ FailPlain(wr, "rename")
       \/ /\ disk[job[wr].temp].exists
          /\ disk' = [disk EXCEPT ![EpubPath] = disk[job[wr].temp],
                                  ![job[wr].temp] = NoFile]
          /\ job' = [job EXCEPT ![wr].cleanupTemp = FALSE]
          /\ pc' = [pc EXCEPT ![wr] = IF job[wr].kind = "meta" THEN "reread" ELSE "defer"]
          /\ UNCHANGED <<idx, ret>>

\* ExtractLiveMetadata on the file now at the path
ExtractLiveMetadata(file) ==
    LET f       == findOPFPath(file.entries)
        hits    == {i \in 1..Len(file.entries) : file.entries[i].name = f.path}
        content == file.entries[MinOf(hits)].data
    IN  IF ~OpenReaderOK(file) THEN [err |-> "io", meta |-> NoMetadata]
        ELSE IF f.err # "" THEN [err |-> f.err, meta |-> NoMetadata]
        ELSE IF f.path = <<>> \/ hits = {}
        THEN [err |-> "opf package document not found", meta |-> NoMetadata]
        ELSE LiveMetadataOf(content)

\* a call of ExtractLiveMetadata on the file at the path: the metadata read
\* of the interactive editing path
ReadMetadata(wr) ==
    /\ pc[wr] \in {"idle", "done"}
    /\ calls < MaxCalls
    /\ calls' = calls + 1
    /\ orig' = [orig EXCEPT ![wr] = disk[EpubPath]]
    /\ pc' = [pc EXCEPT ![wr] = "done"]
    /\ job' = [job EXCEPT ![wr] = IdleJob]
    /\ idx' = [idx EXCEPT ![wr] = 0]
    /\ UNCHANGED <<hostVars, fieldVars, coverVars, disk>>
    /\ \E io \in BOOLEAN :
         \E r \in {ExtractLiveMetadata(disk[EpubPath])} :
             ret' = [ret EXCEPT ![wr] =
                        IF ~io THEN [NoReturn EXCEPT !.err = "io", !.step = "read"]
                        ELSE [err |-> r.err, meta |-> r.meta, step |-> "read"]]

\* the return statement of UpdateEPUBMetadata, line 237
Reread(wr) ==
    /\ pc[wr] = "reread"
    /\ UNCHANGED <<hostVars, fieldVars, coverVars, orig, calls, disk, job, idx>>
    /\ pc' = [pc EXCEPT ![wr] = "defer"]
    /\ \E io \in BOOLEAN :
         \E r \in {ExtractLiveMetadata(disk[EpubPath])} :
             ret' = [ret EXCEPT ![wr] =
                        IF ~io THEN [NoReturn EXCEPT !.err = "io", !.step = "reread"]
                        ELSE [err |-> r.err, meta |-> r.meta,
                              step |-> IF r.err = "" THEN "" ELSE "reread"]]

\* a deferred function that forgets the os.Remove
CleanupWithoutRemove(wr) ==
    /\ pc[wr] = "defer"
    /\ UNCHANGED <<hostVars, fieldVars, coverVars, orig, calls, idx, ret, disk>>
    /\ pc' = [pc EXCEPT ![wr] = "done"]
    /\ job' = [job EXCEPT ![wr].tempOpen = FALSE]

\* the deferred function: tempFile.Close() and, while cleanupTemp is set,
\* os.Remove(tempPath)
Cleanup(wr) ==
    /\ pc[wr] = "defer"
    /\ UNCHANGED <<hostVars, fieldVars, coverVars, orig, calls, idx, ret>>
    /\ pc' = [pc EXCEPT ![wr] = "done"]
    /\ job' = [job EXCEPT ![wr].tempOpen = FALSE]
    /\ disk' = IF job[wr].cleanupTemp
               THEN [disk EXCEPT ![job[wr].temp] = NoFile]
               ELSE disk

Next ==
    \/ BeginMetadata("w1")
    \/ BeginCover("w1")
    \/ ReadMetadata("w1")
    \/ CreateTemp("w1")
    \/ MetadataEntry("w1")
    \/ CoverEntry("w1")
    \/ FinishCover("w1")
    \/ CloseWriter("w1")
    \/ CloseTemp("w1")
    \/ Rename("w1")
    \/ Reread("w1")
    \/ Cleanup("w1")

Spec == Init /\ [][Next]_vars

(***************************************************************************)
(* The cover locator: SaveCover                                            *)
(***************************************************************************)
\* strings.Contains(low, "cover") || strings.Contains(low, "folder"), and
\* one of the suffixes .jpg .jpeg .png, on the lower-cased entry name
IsCoverNamedImage(name) ==
    /\ \E i \in 1..Len(name) : HasCoverWord(name[i].stem)
    /\ LowerStr(BaseOf(name).ext) \in {"jpg", "jpeg", "png"}

\* the href of the cover the package document declares, as SaveCover reads
\* it: the first item whose properties contain cover-image, else the item
\* whose id is the content of the first meta named cover
DeclaredCoverHref(doc) ==
    LET opf0 == UnmarshalOPF(doc)
        m    == opf0.Manifest
        ci   == FirstOf({n \in 1..Len(m) : m[n].props \in {"cover-image", "cover-image svg"}})
        byProps == IF ci = 0 THEN <<>> ELSE m[ci].href
        cm   == FirstOf({n \in 1..Len(opf0.Meta) : opf0.Meta[n].n = "cover"})
        cid  == IF cm = 0 THEN <<>> ELSE opf0.Meta[cm].v
        byId == IF cid = <<>> THEN 0 ELSE FirstOf({n \in 1..Len(m) : m[n].id = cid})
    IN  IF byProps # <<>> THEN byProps
        ELSE IF byId # 0 THEN m[byId].href
        ELSE <<>>

NoCover == [source |-> "none", entry |-> 0]

\* the loops of SaveCover over the entries of the opened archive; the
\* loop over the preferred file names exists in the later version only
LocateInArchive(files, withPreferred) ==
    LET pre   == FirstOf({n \in 1..Len(files) : isPreferredCoverFilename(files[n].name)})
        named == FirstOf({n \in 1..Len(files) : IsCoverNamedImage(files[n].name)})
        o     == FirstOf({n \in 1..Len(files) : BaseOf(files[n].name).ext = "opf"})
        href  == DeclaredCoverHref(files[o].data)
        full  == JoinPath(DirOfName(files[o].name), href)
        decl  == FirstOf({n \in 1..Len(files) : files[n].name = full \/ files[n].name = href})
    IN  IF withPreferred /\ pre # 0 THEN [source |-> "preferred", entry |-> pre]
        ELSE IF named # 0 THEN [source |-> "named", entry |-> named]
        ELSE IF o # 0 /\ href # <<>> /\ decl # 0 THEN [source |-> "declared", entry |-> decl]
        ELSE NoCover

\* the check with its negation lost: info.IsDir()
SiblingIsDir(s) == s.kind = "dir"

\* os.Stat(localCoverPath) succeeds and !info.IsDir()
SiblingIsFile(s) == s.kind = "file"

\* SaveCover up to the call of saveExternalCover or extractZipFile
SaveCoverBegin(version) ==
    /\ cov.pc = "idle"
    /\ UNCHANGED <<hostVars, fieldVars, archVars, sibling, cache, cache0, listing>>
    /\ \E io \in BOOLEAN :
         LET file == disk[EpubPath]
             loc  == LocateInArchive(file.entries, version = "v2")
         IN  cov' =
               IF SiblingIsFile(sibling)
               THEN [IdleCover EXCEPT !.pc = "copy", !.version = version,
                                      !.source = "sibling"]
               ELSE IF ~io \/ ~OpenReaderOK(file)
               THEN [IdleCover EXCEPT !.pc = "done", !.version = version, !.err = "io"]
               ELSE IF loc.source = "none"
               THEN [IdleCover EXCEPT !.pc = "done", !.version = version,
                                      !.err = "no cover found"]
               ELSE [IdleCover EXCEPT !.pc = "copy", !.version = version,
                                      !.source = loc.source, !.entry = loc.entry]

\* SaveCover of src/unnamed/part_000
SaveCover == SaveCoverBegin("v2")

\* SaveCover of src/internal/scanner/scanner.go
SaveCoverV1 == SaveCoverBegin("v1")

\* the bytes saveExternalCover or extractZipFile is to copy
CoverSourceData ==
    IF cov.source = "sibling" THEN sibling.data
    ELSE disk[EpubPath].entries[cov.entry].data

\* saveExternalCover and extractZipFile: open the source, create the cache
\* file, copy
CopyToCache ==
    /\ cov.pc = "copy"
    /\ UNCHANGED <<hostVars, fieldVars, archVars, sibling, cache0, listing>>
    /\ \/ /\ cov' = [cov EXCEPT !.pc = "done", !.err = "io"]
          /\ UNCHANGED cache
       \/ /\ cov' = [cov EXCEPT !.pc = "done", !.err = "io"]
          /\ cache' = [kind |-> "file", data |-> <<>>, partial |-> TRUE]
       \/ /\ cov' = [cov EXCEPT !.pc = "done"]
          /\ cache' = Blob(CoverSourceData)

nExtraCover == <<Seg("extras", ""), Seg("cover", "jpg")>>
nFolder     == <<OEBPS, Images, Seg("folder", "jpg")>>

\* a cover-named file that the manifest does not list comes before the
\* manifest-listed cover
ArchiveUnlistedCover ==
    <<eCont(TRUE, <<nOpf>>), Entry(nExtraCover, <<Image("X", "jpeg", 50, 50)>>),
      Entry(nOpf, DocWith(bTitle, <<iOldCover, iCh1>>)), eOldCover, eCh1>>

\* the package document, named by container.xml, is Content.OPF and
\* declares its cover by the cover-image property
ArchiveDeclaredUpper ==
    <<eCont(TRUE, <<nRootOpf>>),
      Entry(nRootOpf, DocWith(bPlain, <<Item(<<"i", "1">>, nRootImg, "image/png",
                                            "cover-image")>>)),
      Entry(nRootImg, <<Image("A", "png", 300, 450)>>)>>

ArchiveFolderNamed ==
    <<eCont(TRUE, <<nOpf>>),
      Entry(nOpf, DocWith(bTitle, <<iCh1, iImg1,
                                    Item(<<"f", "o">>, <<Images, Seg("folder", "jpg")>>,
                                         "image/jpeg", "")>>)),
      eCh1, eImg1, Entry(nFolder, <<Image("F", "jpeg", 300, 400)>>)>>

\* the cover is declared by the cover-image property
ArchiveDeclaredProps ==
    <<eCont(TRUE, <<nOpf>>),
      Entry(nOpf, DocWith(bTitle, <<iCh1, iImg1,
                                    Item(FrontId, <<Images, Seg("front", "jpg")>>,
                                         "image/jpeg", "cover-image")>>)),
      eCh1, eImg1, eFront>>

\* books for the lister: manifests made of up to MaxImages items of a pool
\* of images around the limits of the suitability filter, an item whose
\* entry is no image, an item whose entry is missing and an item that
\* lists an image under another media type
MaxImages == 2

PoolImage(stem, mt, w, h) ==
    [item  |-> Item(<<stem>>, <<Images, Seg(stem, "jpg")>>, mt, ""),
     entry |-> <<Entry(<<OEBPS, Images, Seg(stem, "jpg")>>,
                       <<Image(stem, "jpeg", w, h)>>)>>]

ImagePool ==
    <<PoolImage("g1", "image/jpeg", 100, 100),
      PoolImage("g2", "image/png", 300, 450),
      PoolImage("g3", "image/jpg", 240, 320),
      PoolImage("g4", "image/jpeg", 239, 400),
      PoolImage("g5", "Image/JPEG", 275, 500),
      PoolImage("g6", "image/jpeg", 340, 400),
      PoolImage("g7", "image/jpeg", 341, 400),
      PoolImage("g8", "image/jpeg", 240, 319),
      [item  |-> Item(<<"g9">>, <<Images, Seg("g9", "jpg")>>, "image/jpeg", ""),
       entry |-> <<Entry(<<OEBPS, Images, Seg("g9", "jpg")>>, <<Bytes("truncated")>>)>>],
      [item  |-> Item(<<"g10">>, <<Images, Seg("g10", "jpg")>>, "image/jpeg", ""),
       entry |-> <<>>],
      PoolImage("g11", "application/octet-stream", 300, 450)>>

RECURSIVE GalleryItems(_, _)
GalleryItems(picked, i) ==
    IF i > Len(ImagePool) THEN <<>>
    ELSE (IF i \in picked THEN <<ImagePool[i].item>> ELSE <<>>)
            \o GalleryItems(picked, i + 1)

RECURSIVE GalleryEntries(_, _)
GalleryEntries(picked, i) ==
    IF i > Len(ImagePool) THEN <<>>
    ELSE (IF i \in picked THEN ImagePool[i].entry ELSE <<>>)
            \o GalleryEntries(picked, i + 1)

ArchiveGallery(picked) ==
    <<eCont(TRUE, <<nOpf>>),
      Entry(nOpf, DocWith(bTitle, <<iCh1>> \o GalleryItems(picked, 1))), eCh1>>
        \o GalleryEntries(picked, 1)

Galleries ==
    {ArchiveGallery(picked) : picked \in
        {q \in SUBSET (1..Len(ImagePool)) : Cardinality(q) <= MaxImages}}

CoverArchives ==
    Archives \cup Galleries
        \cup {ArchiveUnlistedCover, ArchiveDeclaredUpper, ArchiveFolderNamed,
               ArchiveDeclaredProps}

\* a file that is no zip archive
CorruptFile == [exists |-> TRUE, closed |-> FALSE, entries |-> <<>>]

SiblingImage == <<Image("S", "jpeg", 1000, 1500)>>
Siblings == {NoBlob, Blob(SiblingImage), [NoBlob EXCEPT !.kind = "dir"]}
Caches   == {NoBlob, Blob(<<Image("Z", "jpeg", 10, 10)>>)}

InitCover ==
    /\ FieldIdle
    /\ \E file \in {ZipFile(a) : a \in CoverArchives} \cup {CorruptFile} : ArchInitFile(file)
    /\ sibling \in Siblings
    /\ cache \in Caches
    /\ cache0 = cache
    /\ cov = IdleCover
    /\ listing = NoListing
    /\ HostIdle

\* ListCoverOptions, lines 778-846
ListCovers ==
    /\ listing.pc = "idle"
    /\ UNCHANGED <<hostVars, fieldVars, archVars, sibling, cache, cache0, cov>>
    /\ \E io \in BOOLEAN :
       \E file \in {disk[EpubPath]} :
         listing' =
            IF ~io \/ ~OpenReaderOK(file)
            THEN [pc |-> "done", err |-> "io", opts |-> <<>>]
            ELSE [pc |-> "done"] @@ ListCoverOptions(file.entries)

NextCover == SaveCover \/ SaveCoverV1 \/ CopyToCache \/ ListCovers

SpecCover == InitCover /\ [][NextCover]_vars

(***************************************************************************)
(* Properties of the field engine                                          *)
(***************************************************************************)
\* the elements of a tag, in either form, that a block holds
ElementPositions(b, tag) ==
    {i \in 1..Len(b) : b[i].k \in {"open", "self"} /\ b[i].t = tag /\ b[i].p \in {"dc", ""}}

ElementCount(b, tag) == Cardinality(ElementPositions(b, tag))

HasForm(b, p, tag) == \E i \in 1..Len(b) : IsStart(b[i], p, tag)

\* the block holds <P:T>escaped value</P:T>
HoldsElement(b, p, tag, value) ==
    \E i \in 1..(Len(b) - 2) :
        /\ b[i] = Open(p, tag)
        /\ b[i + 1] = Text(xmlEscape(value))
        /\ b[i + 2] = Close(p, tag)

InnerOf(doc) == metadataInnerBlock(doc).inner

\* C8: set_single_tag(tag, value) removes every occurrence of both forms of
\* the tag; with a non-empty value the result holds exactly one element of
\* the tag, with the escaped value and the prefix of the first form found
\* (dc: if there was none); with an empty value it holds no element of the
\* tag.
C8_SingleTagExactlyOne ==
    lastOp.kind = "single" =>
        LET b   == InnerOf(opf)
            b0  == InnerOf(before)
            tag == lastOp.tag
            v   == TrimSpace(lastOp.value)
            pre == IF HasForm(b0, "dc", tag) THEN "dc"
                   ELSE IF HasForm(b0, "", tag) THEN "" ELSE "dc"
        IN  IF v = <<>> THEN ElementCount(b, tag) = 0
            ELSE ElementCount(b, tag) = 1 /\ HoldsElement(b, pre, tag, v)

SingleFields == {"title", "creator", "language", "identifier", "publisher",
                 "date", "description"}

\* the value an update gives for the single-valued tag
FieldOf(u, tag) ==
    CASE tag = "title"       -> u.Title
      [] tag = "creator"     -> u.Creator
      [] tag = "language"    -> u.Language
      [] tag = "identifier"  -> u.Identifier
      [] tag = "publisher"   -> u.Publisher
      [] tag = "date"        -> u.Date
      [] tag = "description" -> u.Description

\* what read_metadata returned for the single-valued tag
ReadOf(m, tag) ==
    CASE tag = "title"       -> m.Title
      [] tag = "creator"     -> m.Author
      [] tag = "language"    -> m.Language
      [] tag = "identifier"  -> m.Identifier
      [] tag = "publisher"   -> m.Publisher
      [] tag = "date"        -> m.Date
      [] tag = "description" -> m.Description

MetaCount(b, name) ==
    Cardinality({i \in 1..Len(b) : b[i].k = "meta" /\ b[i].n = name})

Written == lastOp.kind = "update" /\ outcome = "ok"

\* C4: round trip.  After a successful write of U, read_metadata returns
\* for every non-empty field of U the value given in U (here compared after
\* trimming surrounding white space, the reading most favourable to the
\* code), whatever the block held before.
C4_RoundTrip ==
    Written =>
        LET u == lastOp.u
        IN  /\ \A tag \in SingleFields :
                  TrimSpace(FieldOf(u, tag)) # <<>>
                      => ReadOf(live, tag) = TrimSpace(FieldOf(u, tag))
            /\ TrimSpace(u.Series) # <<>> => live.Series = TrimSpace(u.Series)
            /\ TrimSpace(u.SeriesIndex) # <<>>
                  => live.SeriesIndex = TrimSpace(u.SeriesIndex)
            /\ u.Subjects # <<>> => live.Subjects = CleanValues(u.Subjects, <<>>)

\* C5: idempotence.  After the same update was applied twice or more, the
\* block holds exactly one element per non-empty single-valued field, one
\* calibre:series and one calibre:series_index meta when those are
\* non-empty, and len(dedupe(subjects)) subject elements.
C5_Idempotent ==
    (Written /\ writes >= 2) =>
        LET u == lastOp.u
            b == InnerOf(opf)
        IN  /\ \A tag \in SingleFields :
                  TrimSpace(FieldOf(u, tag)) # <<>> => ElementCount(b, tag) = 1
            /\ TrimSpace(u.Series) # <<>> => MetaCount(b, "calibre:series") = 1
            /\ TrimSpace(u.SeriesIndex) # <<>>
                  => MetaCount(b, "calibre:series_index") = 1
            /\ ElementCount(b, "subject") = Len(CleanValues(u.Subjects, <<>>))

\* The managed elements of a block as XML sees them: an element of a
\* managed tag is a self-closing tag, or an opening tag with everything up
\* to its closing tag; a managed meta is a calibre:series or
\* calibre:series_index meta tag.
ManagedTags == SingleFields \cup {"subject"}
ManagedMetas == {"calibre:series", "calibre:series_index"}

IsManagedStart(x) ==
    \/ x.k \in {"open", "self"} /\ x.p \in {"dc", ""} /\ x.t \in ManagedTags
    \/ x.k = "meta" /\ x.n \in ManagedMetas

\* the last position of the managed element that starts at position s
ManagedEnd(b, s) ==
    IF b[s].k = "open" /\ EndsAfter(b, s, b[s].p, b[s].t) # {}
    THEN MinOf(EndsAfter(b, s, b[s].p, b[s].t))
    ELSE s

\* the block without its managed elements
RECURSIVE UnmanagedFrom(_, _)
UnmanagedFrom(b, i) ==
    LET starts == {s \in i..Len(b) : IsManagedStart(b[s])}
    IN  IF starts = {} THEN SubSeq(b, i, Len(b))
        ELSE LET s == MinOf(starts)
             IN  SubSeq(b, i, s - 1) \o UnmanagedFrom(b, ManagedEnd(b, s) + 1)

Unmanaged(b) == UnmanagedFrom(b, 1)

\* C7: a metadata write changes the package document only inside the
\* metadata span; inside the span everything that does not belong to a
\* removed managed element survives in its order, new elements are only
\* appended at the end (each behind its line break); unrelated elements,
\* comments and white space are not altered.
C7_OnlyManagedElementsChange ==
    Written =>
        LET old  == metadataInnerBlock(before)
            new  == metadataInnerBlock(opf)
            keep == Unmanaged(old.inner)
            left == Unmanaged(new.inner)
        IN  /\ new.err = ""
            /\ SubSeq(opf, 1, new.start) = SubSeq(before, 1, old.start)
            /\ SubSeq(opf, new.end, Len(opf)) = SubSeq(before, old.end, Len(before))
            /\ Len(left) >= Len(keep)
            /\ SubSeq(left, 1, Len(keep)) = keep
            /\ \A i \in (Len(keep) + 1)..Len(left) : left[i] = Text(<<NL>>)

(***************************************************************************)
(* Properties of the archive rewriter                                      *)
(***************************************************************************)
StepsAfterTemp ==
    {"header", "open", "copy", "rewrite", "closeWriter", "closeTemp", "rename"}

\* no temporary file is left in the directory of the EPUB
NoTempLeft == \A p \in TempPaths : p.dir = EpubPath.dir => ~disk[p].exists

FailedAfterTemp(wr) ==
    pc[wr] = "done" /\ ret[wr].err # "" /\ ret[wr].step \in StepsAfterTemp

\* C1: when UpdateEPUBMetadata or WriteCoverToEPUB fails at a step after
\* its temporary file was created (an entry header, opening or copying an
\* entry, rewriting the package document, closing the zip writer, closing
\* the temporary file, the rename), then on return the file at the EPUB
\* path is the file as it was before the call and no temporary file is left.
C1_FailureLeavesOriginal ==
    FailedAfterTemp("w1") => disk[EpubPath] = orig["w1"] /\ NoTempLeft

\* a cover write whose rename failed, after the whole new archive was written
C1_Witness ==
    /\ FailedAfterTemp("w1")
    /\ ret["w1"].step = "rename"
    /\ job["w1"].kind = "cover"
    /\ disk[EpubPath] = orig["w1"]

\* the complete archive a call writes, computed from the archive it read
RECURSIVE MetadataOutputFrom(_, _, _, _)
MetadataOutputFrom(files, i, plan, update) ==
    IF i > Len(files) THEN <<>>
    ELSE MetadataEntryOut(files[i], plan, update).out
            \o MetadataOutputFrom(files, i + 1, plan, update)

RECURSIVE CoverCopiesFrom(_, _, _)
CoverCopiesFrom(files, i, plan) ==
    IF i > Len(files) THEN <<>>
    ELSE CoverEntryOut(files[i], plan) \o CoverCopiesFrom(files, i + 1, plan)

FullOutput(j) ==
    IF j.kind = "meta" THEN MetadataOutputFrom(j.reader, 1, j.plan, j.u)
    ELSE LET copies == CoverCopiesFrom(j.reader, 1, j.plan)
         IN  IF \E i \in 1..Len(j.reader) :
                    normalizeZipPath(j.reader[i].name) = j.plan.canonical
             THEN copies
             ELSE Append(copies, Entry(j.plan.canonical, j.plan.rewritten))

Replaced(wr) ==
    /\ pc[wr] \in {"reread", "defer", "done"}
    /\ job[wr].kind \in {"meta", "cover"}
    /\ ~job[wr].cleanupTemp
    /\ ret[wr].step \in {"", "reread"}

C2_State ==
    /\ \/ disk[EpubPath] = orig["w1"]
       \/ Replaced("w1") /\ disk[EpubPath] = ZipFile(FullOutput(job["w1"]))
    /\ job["w1"].temp # NoPath => job["w1"].temp.dir = EpubPath.dir
    /\ \A p \in AllPaths : (disk[p].exists /\ p # EpubPath) => p = job["w1"].temp

C2_Step ==
    disk'[EpubPath] # disk[EpubPath] =>
        /\ pc["w1"] = "rename"
        /\ disk[job["w1"].temp].closed
        /\ ~job["w1"].tempOpen
        /\ disk'[EpubPath] = disk[job["w1"].temp]

\* C2: during a write by a single writer the file at the EPUB path is at
\* every step the complete original archive or the complete rewritten one;
\* new content is written only to a temporary file in the directory of the
\* EPUB and reaches the path only by the rename, which is made only after
\* the zip writer and the temporary file were closed.
C2_OriginalOrRewritten == [](C2_State) /\ [][C2_Step]_vars

\* a metadata write has replaced the file by an archive that differs
C2_Witness ==
    /\ Replaced("w1")
    /\ job["w1"].kind = "meta"
    /\ disk[EpubPath] # orig["w1"]
    /\ disk[EpubPath] = ZipFile(FullOutput(job["w1"]))

(***************************************************************************)
(* Archive integrity                                                       *)
(***************************************************************************)
Succeeded(wr, kind) ==
    pc[wr] = "done" /\ job[wr].kind = kind /\ ret[wr].err = ""

\* the paths of the entries the package document declares as covers: items
\* with the cover-image property, items with a preferred cover filename and
\* the item the <meta name="cover"> pointer names
DeclaredCovers(doc, opfDir) ==
    LET opf0 == UnmarshalOPF(doc)
        m    == opf0.Manifest
        ids  == {TrimSpace(opf0.Meta[i].v) : i \in
                    {j \in 1..Len(opf0.Meta) : LowerStr(opf0.Meta[j].n) = "cover"}}
    IN  {JoinPath(opfDir, m[i].href) : i \in
            {j \in 1..Len(m) :
                \/ HasCoverImage(m[j].props)
                \/ isPreferredCoverFilename(JoinPath(opfDir, m[j].href))
                \/ TrimSpace(m[j].id) \in ids}}

\* the entries of a cover write that may change: the package document, the
\* canonical cover and the declared covers
CoverTargets(old, opfPath) ==
    LET dir == DirOfName(opfPath)
    IN  {normalizeZipPath(opfPath), JoinPath(dir, <<Seg("cover", "jpg")>>)}
            \cup DeclaredCovers(readZipEntry(old, opfPath).data, dir)

NamesOf(files) == {files[i].name : i \in 1..Len(files)}

\* C3: after a successful metadata write the archive has the same entries
\* in the same order and only the content of the package document differs;
\* after a successful cover write every entry other than the package
\* document, the canonical cover and the declared covers is unchanged, in
\* its order, and the entry count changes by at most the number of cover
\* entries added or removed.
C3_OtherEntriesUnchanged ==
    LET old == orig["w1"].entries
        new == disk[EpubPath].entries
        opfPath == job["w1"].plan.opfPath
    IN  /\ Succeeded("w1", "meta") =>
              /\ Len(new) = Len(old)
              /\ \A i \in 1..Len(old) :
                    /\ new[i].name = old[i].name
                    /\ old[i].name # opfPath => new[i] = old[i]
        /\ Succeeded("w1", "cover") =>
              LET targets   == CoverTargets(old, opfPath)
                  Other(e)  == normalizeZipPath(e.name) \notin targets
                  removed   == Cardinality({i \in 1..Len(old) : old[i].name \notin NamesOf(new)})
                  added     == Cardinality({i \in 1..Len(new) : new[i].name \notin NamesOf(old)})
              IN  /\ SelectSeq(new, Other) = SelectSeq(old, Other)
                  /\ Len(new) - Len(old) <= added
                  /\ Len(old) - Len(new) <= removed
                  /\ \A i \in 1..Len(old) :
                        old[i].name \notin NamesOf(new)
                            => normalizeZipPath(old[i].name) \in targets

\* a metadata write that changed the package document of a six-entry book
C3_Witness ==
    /\ Succeeded("w1", "meta")
    /\ Len(orig["w1"].entries) = 6
    /\ disk[EpubPath] # orig["w1"]

\* a cover write that dropped a declared cover and kept the other entries
C3_WitnessCover ==
    /\ Succeeded("w1", "cover")
    /\ Len(disk[EpubPath].entries) < Len(orig["w1"].entries)

(***************************************************************************)
(* CanonicalCover                                                          *)
(***************************************************************************)
CanonicalPathOf(opfPath) ==
    JoinPath(DirOfName(normalizeZipPath(opfPath)), <<Seg("cover", "jpg")>>)

\* the positions of the meta elements named cover in a package document
CoverMetas(doc) ==
    {i \in 1..Len(doc) : doc[i].k = "meta" /\ LowerStr(doc[i].n) = "cover"}

\* the positions of the manifest items that carry a cover marker: the id
\* cover-image, the cover-image property or a preferred cover filename
CoverItems(doc, opfDir) ==
    {i \in 1..Len(doc) :
        /\ doc[i].k = "item"
        /\ \/ LowerChars(TrimSpace(doc[i].id)) = CoverImageId
           \/ HasCoverImage(doc[i].props)
           \/ isPreferredCoverFilename(JoinPath(opfDir, doc[i].href))}

CanonicalCoverIn(files, opfPath, jpeg) ==
    LET doc    == readZipEntry(files, opfPath).data
        dir    == DirOfName(normalizeZipPath(opfPath))
        metas  == CoverMetas(doc)
        items  == CoverItems(doc, dir)
        covers == {i \in 1..Len(files) :
                      normalizeZipPath(files[i].name) = CanonicalPathOf(opfPath)}
    IN  /\ Cardinality(metas) = 1
        /\ \A i \in metas : doc[i] = Meta("d", "cover", CoverImageId)
        /\ Cardinality(items) = 1
        /\ \A i \in items :
              /\ doc[i].id = CoverImageId
              /\ JoinPath(dir, doc[i].href) = CanonicalPathOf(opfPath)
              /\ doc[i].mt = "image/jpeg"
              /\ doc[i].props = "cover-image"
        /\ Cardinality(covers) = 1
        /\ \A i \in covers : files[i].data = jpeg

\* C11: after every successful WriteCoverToEPUB, a repeated one included,
\* the package document holds exactly one meta element named cover, the
\* marker <meta name="cover" content="cover-image"/>, and exactly one
\* manifest item with a cover marker, the item cover-image that resolves to
\* <opf-dir>/cover.jpg with media type image/jpeg and the cover-image
\* property; and the archive holds exactly one entry at <opf-dir>/cover.jpg,
\* the re-encoded JPEG of the selected image.
C11_CanonicalCover ==
    Succeeded("w1", "cover") =>
        CanonicalCoverIn(disk[EpubPath].entries, job["w1"].plan.opfPath,
                         EncodeJPEG(readZipEntry(orig["w1"].entries, job["w1"].sel).data))

\* a second cover write on a file that a first cover write produced
C11_Witness ==
    /\ Succeeded("w1", "cover")
    /\ calls = 2
    /\ \E i \in 1..Len(orig["w1"].entries) :
          /\ orig["w1"].entries[i].data # <<>>
          /\ orig["w1"].entries[i].data[1].k = "img"
          /\ orig["w1"].entries[i].data[1].enc = "q90"
    /\ disk[EpubPath] # orig["w1"]

\* a cover write on the book with several cover markers
C11_WitnessMarkers ==
    /\ Succeeded("w1", "cover")
    /\ Cardinality(CoverMetas(readZipEntry(orig["w1"].entries,
                                           job["w1"].plan.opfPath).data)) = 2

(***************************************************************************)
(* NoChangesApplied                                                        *)
(***************************************************************************)
AllFieldsEmpty(u) ==
    /\ \A tag \in SingleFields : TrimSpace(FieldOf(u, tag)) = <<>>
    /\ CleanValues(u.Subjects, <<>>) = <<>>
    /\ TrimSpace(u.Series) = <<>>
    /\ TrimSpace(u.SeriesIndex) = <<>>

HoldsManaged(b) == \E i \in 1..Len(b) : IsManagedStart(b[i])

\* the call got as far as rewriteOPFMetadata on a package document that has
\* a metadata block, and met no I/O error
ReachedRewrite(wr) ==
    /\ pc[wr] = "done" /\ job[wr].kind = "meta"
    /\ ret[wr].err # "io"
    /\ ret[wr].step \in {"", "rewrite"}
    /\ readZipEntry(orig[wr].entries, job[wr].plan.opfPath).err = ""
    /\ metadataInnerBlock(readZipEntry(orig[wr].entries, job[wr].plan.opfPath).data).err = ""

\* C6: write_metadata fails with NoChangesApplied exactly when no field
\* operation reports a change, that is, when every field of the update is
\* empty (after trimming) and the metadata block holds no managed element;
\* the file is then not replaced and no temporary file is left.
C6_NoChangesExactly ==
    ReachedRewrite("w1") =>
        LET doc == readZipEntry(orig["w1"].entries, job["w1"].plan.opfPath).data
            b   == metadataInnerBlock(doc).inner
            u   == job["w1"].u
            nothing == AllFieldsEmpty(u) /\ ~HoldsManaged(b)
        IN  /\ (ret["w1"].err = "errMetadataTagNotFound") <=> nothing
            /\ nothing => disk[EpubPath] = orig["w1"] /\ NoTempLeft

(***************************************************************************)
(* Properties of the cover locator                                         *)
(***************************************************************************)
\* C9: whenever a regular file cover.jpg lies next to the EPUB, SaveCover
\* takes that file and nothing else: whatever cover the archive declares
\* or holds, and whether or not the EPUB can be opened, the source is the
\* sibling file, a successful call leaves its bytes in the cache, and the
\* cache never receives bytes of a zip entry.
C9_SiblingWins ==
    (sibling.kind = "file" /\ cov.pc # "idle") =>
        /\ cov.source = "sibling"
        /\ (cov.pc = "done" /\ cov.err = "") => cache = Blob(sibling.data)
        /\ cov.err \in {"", "io"}
        /\ cache \in {cache0, Blob(sibling.data),
                      [kind |-> "file", data |-> <<>>, partial |-> TRUE]}

\* the sibling file won over a cover declared in the package document
C9_Witness ==
    /\ sibling = Blob(SiblingImage)
    /\ disk[EpubPath] = ZipFile(ArchiveMetaCover)
    /\ cov.pc = "done" /\ cov.err = "" /\ cov.version = "v2"
    /\ cache = Blob(SiblingImage)

\* the entries of the archive that the manifest of the package document
\* lists under a preferred cover file name
ListedPreferred(files) ==
    LET f    == findOPFPath(files)
        doc  == readZipEntry(files, f.path)
        m    == UnmarshalOPF(doc.data).Manifest
        dir  == DirOfName(normalizeZipPath(f.path))
    IN  IF f.err # "" \/ f.path = <<>> \/ doc.err # "" THEN {}
        ELSE {i \in 1..Len(files) :
                 /\ isPreferredCoverFilename(files[i].name)
                 /\ \E j \in 1..Len(m) :
                        JoinPath(dir, m[j].href) = normalizeZipPath(files[i].name)}

\* the entries the package document declares as its cover
DeclaredEntries(files) ==
    LET f    == findOPFPath(files)
        doc  == readZipEntry(files, f.path)
        href == DeclaredCoverHref(doc.data)
        dir  == DirOfName(normalizeZipPath(f.path))
    IN  IF f.err # "" \/ f.path = <<>> \/ doc.err # "" \/ href = <<>> THEN {}
        ELSE {i \in 1..Len(files) :
                 normalizeZipPath(files[i].name) = JoinPath(dir, href)}

\* C10: without a sibling cover.jpg, SaveCover takes (2) a manifest-listed
\* entry with a preferred cover file name; else (3) the first entry whose
\* name contains cover or folder and ends in an image suffix; else (4) the
\* cover the package document declares; else it reports that no cover was
\* found and leaves the cache alone.
C10_PriorityOrder ==
    LET files  == disk[EpubPath].entries
        listed == ListedPreferred(files)
        named  == {i \in 1..Len(files) : IsCoverNamedImage(files[i].name)}
        decl   == DeclaredEntries(files)
    IN  ( /\ cov.version = "v2" /\ cov.pc \in {"copy", "done"}
          /\ sibling.kind = "absent"
          /\ ~(cov.source = "none" /\ cov.err = "io") ) =>
            IF listed # {} THEN cov.entry \in listed
            ELSE IF named # {} THEN cov.entry = MinOf(named)
            ELSE IF decl # {} THEN cov.entry \in decl
            ELSE cov.err = "no cover found" /\ cache = cache0

(***************************************************************************)
(* Properties of the cover candidate lister                                *)
(***************************************************************************)
Listed == listing.pc = "done" /\ listing.err = ""

\* the manifest of the book on disk and the directory of its package
\* document
BookManifest ==
    UnmarshalOPF(readZipEntry(disk[EpubPath].entries,
                              findOPFPath(disk[EpubPath].entries).path).data).Manifest

BookDir == DirOfName(findOPFPath(disk[EpubPath].entries).path)

\* the entry a manifest item resolves to, <<>> if there is none
ItemImage(item) ==
    LET hits == {n \in 1..Len(disk[EpubPath].entries) :
                    normalizeZipPath(disk[EpubPath].entries[n].name)
                        = JoinPath(BookDir, item.href)}
    IN  IF hits = {} THEN <<>> ELSE disk[EpubPath].entries[MinOf(hits)].data

IsImageItem(item) ==
    LowerStr(item.mt) \in {"image/jpeg", "image/jpg", "image/png"}

IsDecodableImage(item) ==
    /\ ItemImage(item) # <<>>
    /\ ItemImage(item)[1].k = "img"

\* the decodable manifest images, in manifest order, as path and size
ManifestImages ==
    LET imgs == SelectSeq(BookManifest, LAMBDA it : IsImageItem(it) /\ IsDecodableImage(it))
    IN  [n \in 1..Len(imgs) |->
            [ZipPath |-> JoinPath(BookDir, imgs[n].href),
             Width   |-> ItemImage(imgs[n])[1].w,
             Height  |-> ItemImage(imgs[n])[1].h]]

\* at least 240 wide, at least 320 high, width/height in [11/20, 17/20]
Portrait(o) ==
    /\ o.Width >= 240 /\ o.Height >= 320
    /\ 20 * o.Width >= 11 * o.Height
    /\ 20 * o.Width <= 17 * o.Height

ListedSizes ==
    [n \in 1..Len(listing.opts) |->
        [ZipPath |-> listing.opts[n].ZipPath,
         Width   |-> listing.opts[n].Width,
         Height  |-> listing.opts[n].Height]]

\* C12: ListCoverOptions returns exactly the decodable manifest images that
\* are at least 240 wide and 320 high with width/height in [0.55, 0.85]
\* whenever there is one, and otherwise all decodable manifest images; a
\* manifest with a 100x100 and a 300x450 image yields only the 300x450
\* candidate, a manifest with only the 100x100 image yields that image.
C12_SuitabilityFilter ==
    Listed =>
        /\ ListedSizes = IF SelectSeq(ManifestImages, Portrait) # <<>>
                         THEN SelectSeq(ManifestImages, Portrait)
                         ELSE ManifestImages
        /\ disk[EpubPath].entries = ArchiveGallery({1, 2}) =>
              /\ Len(listing.opts) = 1
              /\ listing.opts[1].Width = 300 /\ listing.opts[1].Height = 450
        /\ disk[EpubPath].entries = ArchiveGallery({1}) =>
              /\ Len(listing.opts) = 1
              /\ listing.opts[1].Width = 100 /\ listing.opts[1].Height = 100

\* the list of a book with a 100x100 and a 300x450 image: the small image
\* was left out
C12_Witness ==
    /\ Listed
    /\ disk[EpubPath].entries = ArchiveGallery({1, 2})
    /\ Len(ManifestImages) = 2
    /\ Len(listing.opts) = 1

\* the list of a book whose only decodable image is outside the limits
C12_WitnessFallback ==
    /\ Listed
    /\ Len(ManifestImages) = 1
    /\ ~Portrait(ManifestImages[1])
    /\ Len(listing.opts) = 1

\* C13 as stated: whenever the manifest lists at least one item of media
\* type image/jpeg, image/jpg or image/png, a successful ListCoverOptions
\* returns a non-empty list.
C13_NonEmptyWhenListed ==
    (Listed /\ \E n \in 1..Len(BookManifest) : IsImageItem(BookManifest[n]))
        => listing.opts # <<>>

\* C13, amended: whenever the manifest lists at least one item of media
\* type image/jpeg, image/jpg or image/png whose entry is in the archive and
\* decodes as an image, a successful ListCoverOptions returns a non-empty
\* list, also when none of these images passes the suitability filter.
C13_NonEmptyWhenDecodable ==
    (Listed /\ ManifestImages # <<>>) => listing.opts # <<>>

\* two decodable images, none of them suitable: both are returned
C13_Witness ==
    /\ Listed
    /\ Len(ManifestImages) = 2
    /\ SelectSeq(ManifestImages, Portrait) = <<>>
    /\ Len(listing.opts) = 2

\* the image a bulk scan of the same archive would extract when there is no
\* sibling cover.jpg
LocatedCover == LocateInArchive(disk[EpubPath].entries, TRUE)

CurrentOptions == {n \in 1..Len(listing.opts) : listing.opts[n].IsCurrent}

\* C14: in every list returned for an archive that has a detectable cover
\* exactly one candidate is marked current, and it is the image the bulk
\* cover locator picks for the archive when there is no sibling cover.jpg.
C14_CurrentIsLocated ==
    (Listed /\ LocatedCover.source # "none") =>
        /\ Cardinality(CurrentOptions) = 1
        /\ \A n \in CurrentOptions :
              listing.opts[n].ZipPath
                  = normalizeZipPath(disk[EpubPath].entries[LocatedCover.entry].name)

(***************************************************************************)
(* The container locator                                                   *)
(***************************************************************************)
\* the path container.xml yields, <<>> when the entry is missing, does not
\* parse, or names no rootfile
ContainerPath(files) ==
    LET cs == {i \in 1..Len(files) : files[i].name = ContainerName}
    IN  IF cs = {} THEN <<>>
        ELSE LET c == files[MinOf(cs)].data
             IN  IF Len(c) = 1 /\ c[1].k = "container" /\ c[1].ok /\ Len(c[1].roots) > 0
                 THEN c[1].roots[1]
                 ELSE <<>>

OpfEntries(files) ==
    {i \in 1..Len(files) : LowerStr(BaseOf(files[i].name).ext) = "opf"}

LocatorErrors == {"xml", "opf package document not found"}

\* C15: the package path is the first rootfile path of container.xml when
\* that yields one; when container.xml is missing, malformed or yields no
\* path and the archive has an entry whose name ends in .opf, a writer that
\* opened the archive does not stop with a locator error but works on that
\* entry; a locator error is never the I/O error of a zip that fails to open.
C15_LocatorFallback ==
    \A wr \in Writers :
        /\ pc[wr] = "createTemp" =>
              job[wr].plan.opfPath =
                 IF ContainerPath(job[wr].reader) # <<>>
                 THEN ContainerPath(job[wr].reader)
                 ELSE job[wr].reader[MinOf(OpfEntries(job[wr].reader))].name
        /\ (pc[wr] = "done" /\ ret[wr].step = "prepare" /\ ContainerPath(orig[wr].entries) = <<>>
               /\ OpfEntries(orig[wr].entries) # {})
              => ret[wr].err \notin LocatorErrors
        /\ (pc[wr] = "done" /\ ret[wr].step = "openReader") => ret[wr].err \notin LocatorErrors

\* the cases of C15 the code does handle: the archive without container.xml
C15_WitnessFallback ==
    /\ pc["w1"] = "createTemp"
    /\ ContainerPath(job["w1"].reader) = <<>>
    /\ job["w1"].plan.opfPath = nRootOpf

\* a writer stopped by a container.xml that does not parse, in an archive
\* that has a package document
C15_WitnessMalformed ==
    /\ pc["w1"] = "done" /\ ret["w1"].err = "xml"
    /\ orig["w1"].entries = ArchiveBadContainer

(***************************************************************************)
(* MetadataSectionNotFound                                                 *)
(***************************************************************************)
\* the package document of a readable archive, <<>> when none is located
PackageDocumentOf(file) ==
    IF ~OpenReaderOK(file) THEN <<>>
    ELSE readZipEntry(file.entries, findOPFPath(file.entries).path).data

\* a package document in which no tag is named metadata
LacksMetadata(doc) ==
    /\ doc # <<>>
    /\ \A i \in 1..Len(doc) :
          doc[i].k \in {"open", "self", "close"} => doc[i].t # "metadata"

\* C16: when the package document of the book has no metadata element, a
\* metadata read, a metadata write and a cover write each end in an error,
\* which is MetadataSectionNotFound unless an I/O step failed first; none
\* returns metadata fields, and the file at the EPUB path is not replaced.
C16_MetadataAbsenceIsError ==
    \A wr \in Writers :
        (pc[wr] = "done" /\ LacksMetadata(PackageDocumentOf(orig[wr]))) =>
            /\ ret[wr].err \in {"errMetadataTagNotFound", "io"}
            /\ ret[wr].meta = NoMetadata
            /\ disk[EpubPath] = orig[wr]

\* a metadata write stopped by the missing metadata element
C16_Witness ==
    /\ pc["w1"] = "done" /\ ret["w1"].step = "rewrite"
    /\ ret["w1"].err = "errMetadataTagNotFound"
    /\ LacksMetadata(PackageDocumentOf(orig["w1"]))

\* a metadata read stopped by the missing metadata element
C16_WitnessRead ==
    /\ pc["w1"] = "done" /\ ret["w1"].step = "read"
    /\ ret["w1"].err = "errMetadataTagNotFound"
    /\ LacksMetadata(PackageDocumentOf(orig["w1"]))

\* a cover write stopped by the missing metadata element
C16_WitnessCover ==
    /\ pc["w1"] = "done" /\ ret["w1"].step = "prepare"
    /\ ret["w1"].err = "errMetadataTagNotFound"
    /\ LacksMetadata(PackageDocumentOf(orig["w1"]))

(***************************************************************************)
(* The interactive editing path: HandleUpdateMetadata and                  *)
(* HandleUpdateCover of the web server.  A request names a book, carries   *)
(* its body, and meets at most one failure of the file system or database; *)
(* the response is the status and the message of http.Error, the message   *)
(* as a fixed text followed by the text of the error where the handler     *)
(* formats one in.  kind is the error kind of the engine's taxonomy that   *)
(* caused the response.                                                    *)
(***************************************************************************)
Response(kind, status, text, detail) ==
    [pc |-> "done", kind |-> kind, status |-> status, msg |-> <<text, detail>>]

\* the copy loop of UpdateEPUBMetadata over all entries: what each
\* iteration writes, or its error
RECURSIVE RewriteEntries(_, _, _)
RewriteEntries(files, plan, update) ==
    IF files = <<>> THEN <<>>
    ELSE <<MetadataEntryOut(Head(files), plan, update)>>
             \o RewriteEntries(Tail(files), plan, update)

RECURSIVE WrittenEntries(_)
WrittenEntries(outs) ==
    IF outs = <<>> THEN <<>> ELSE Head(outs).out \o WrittenEntries(Tail(outs))

LoopErrors(outs) == {i \in 1..Len(outs) : outs[i].err # ""}

\* UpdateEPUBMetadata as one call: the error it returns and its kind, from
\* the results of its steps (plan: the steps before os.CreateTemp, outs:
\* the copy loop, back: the ExtractLiveMetadata of the return statement)
UpdateEPUBMetadataOutcome(file, fault, plan, outs, back) ==
    LET Fail(err, kind) == [err |-> err, kind |-> kind]
        bad == LoopErrors(outs)
    IN  IF fault = "open" \/ ~OpenReaderOK(file) THEN Fail("io", "IOError")
        ELSE IF plan.err = "opf package document not found"
        THEN Fail(plan.err, "PackageNotFound")
        ELSE IF plan.err # "" THEN Fail(plan.err, "IOError")
        ELSE IF fault = "permission" THEN Fail("permission", "PermissionDenied")
        ELSE IF fault = "io" THEN Fail("io", "IOError")
        ELSE IF bad # {}
        THEN Fail(outs[MinOf(bad)].err,
                  IF metadataInnerBlock(file.entries[MinOf(bad)].data).err # ""
                  THEN "MetadataSectionNotFound" ELSE "NoChangesApplied")
        ELSE IF back.err = "" THEN Fail("", "")
        ELSE IF back.err = "opf package document not found"
        THEN Fail(back.err, "PackageNotFound")
        ELSE IF back.err = "errMetadataTagNotFound"
        THEN Fail(back.err, "MetadataSectionNotFound")
        ELSE Fail(back.err, "IOError")

UnknownAuthor == <<"U", "n", "k", "n", "o", "w", "n">>

\* the MetadataUpdate the handler builds from the request body
RequestUpdate(req) ==
    [Title       |-> TrimSpace(req.Title),
     Creator     |-> IF TrimSpace(req.Creator) = <<>> THEN UnknownAuthor
                     ELSE TrimSpace(req.Creator),
     Language    |-> TrimSpace(req.Language),
     Identifier  |-> TrimSpace(req.Identifier),
     Publisher   |-> TrimSpace(req.Publisher),
     Date        |-> TrimSpace(req.Date),
     Description |-> TrimSpace(req.Description),
     Subjects    |-> req.Subjects,
     Series      |-> TrimSpace(req.Series),
     SeriesIndex |-> TrimSpace(req.SeriesIndex)]

MetadataFaults == {"none", "open", "permission", "io", "stat", "db"}

MetadataResponse(req, fault, r) ==
    IF TrimSpace(req.Title) = <<>>
    THEN Response("BadRequest", 400, "Title cannot be empty", "")
    ELSE IF r.err = "permission"
    THEN Response(r.kind, 403, "Write permission denied for EPUB file", "")
    ELSE IF r.err = "errMetadataTagNotFound"
    THEN Response(r.kind, 422, "Unable to locate metadata tags in EPUB", "")
    ELSE IF r.err # ""
    THEN Response(r.kind, 422, "Failed to update EPUB metadata", "")
    ELSE IF fault = "stat"
    THEN Response("IOError", 500, "Metadata saved but failed to read file mod time", "")
    ELSE IF fault = "db"
    THEN Response("Database", 500, "Failed to update metadata cache", "")
    ELSE Response("", 200, "", "")

HandleUpdateMetadata(c) ==
    /\ edits[c].pc = "idle"
    /\ UNCHANGED <<fieldVars, archVars, coverVars, scan, siteVars>>
    /\ \E a \in Archives, req \in ArchUpdates, fault \in MetadataFaults :
       \E plan \in {PrepareMetadata(a)} :
       \E outs \in {IF plan.err = "" THEN RewriteEntries(a, plan, RequestUpdate(req))
                     ELSE <<>>} :
       \E back \in {IF LoopErrors(outs) = {}
                     THEN ExtractLiveMetadata(ZipFile(WrittenEntries(outs)))
                     ELSE [err |-> "", meta |-> NoMetadata]} :
       \E r \in {UpdateEPUBMetadataOutcome(ZipFile(a), fault, plan, outs, back)} :
         edits' = [edits EXCEPT ![c] =
                      [endpoint |-> "metadata", fault |-> fault]
                          @@ MetadataResponse(req, fault, r)]

\* ReadCoverOption, lines 848-877
ReadCoverOption(file, zipPath, fault) ==
    LET hit == readZipEntry(file.entries, normalizeZipPath(zipPath))
    IN  IF fault = "open" \/ ~OpenReaderOK(file)
        THEN [err |-> "io", kind |-> "IOError", raw |-> <<>>]
        ELSE IF normalizeZipPath(zipPath) = <<>>
        THEN [err |-> "invalid cover path", kind |-> "BadRequest", raw |-> <<>>]
        ELSE IF hit.err # ""
        THEN [err |-> hit.err, kind |-> "CandidateNotFound", raw |-> <<>>]
        ELSE [err |-> "", kind |-> "", raw |-> hit.data]

\* WriteCoverToEPUB as one call: the error it returns and its kind, from
\* the result of its steps before os.CreateTemp
WriteCoverToEPUBOutcome(file, fault, plan) ==
    LET Fail(err, kind) == [err |-> err, kind |-> kind]
    IN  IF fault = "reopen" \/ ~OpenReaderOK(file) THEN Fail("io", "IOError")
        ELSE IF plan.err \in {"opf package document not found", "ErrNotExist"}
        THEN Fail(plan.err, "PackageNotFound")
        ELSE IF plan.err = "errMetadataTagNotFound"
        THEN Fail(plan.err, "MetadataSectionNotFound")
        ELSE IF plan.err = "selected cover decode failed"
        THEN Fail(plan.err, "ImageDecodeFailed")
        ELSE IF plan.err # "" THEN Fail(plan.err, "IOError")
        ELSE IF fault = "permission" THEN Fail("permission", "PermissionDenied")
        ELSE IF fault = "io" THEN Fail("io", "IOError")
        ELSE Fail("", "")

CoverFaults ==
    {"none", "open", "cache", "reopen", "permission", "io", "siblingPermission", "sibling"}

\* the response of HandleUpdateCover, from the results of ReadCoverOption
\* (got) and of WriteCoverToEPUB (written)
CoverResponse(writeToEPUB, fault, got, written) ==
    IF got.err # "" THEN Response(got.kind, 404, "Cover candidate not found", "")
    ELSE IF ~Decodable(got.raw)
    THEN Response("ImageDecodeFailed", 422, "Cover conversion failed: ",
                  "image: unknown format")
    ELSE IF fault = "cache"
    THEN Response("IOError", 500, "Failed to update cover cache: ", "io")
    ELSE IF ~writeToEPUB THEN Response("", 200, "", "")
    ELSE IF written.err # ""
    THEN Response(written.kind, 422, "Failed writing cover to EPUB: ", written.err)
    ELSE IF fault = "siblingPermission"
    THEN Response("PermissionDenied", 403,
                  "Write permission denied for sibling cover.jpg", "")
    ELSE IF fault = "sibling"
    THEN Response("IOError", 422, "Failed writing sibling cover.jpg: ", "io")
    ELSE Response("", 200, "", "")

HandleUpdateCover(c) ==
    /\ edits[c].pc = "idle"
    /\ UNCHANGED <<fieldVars, archVars, coverVars, scan, siteVars>>
    /\ \E a \in Archives, key \in Selections, writeToEPUB \in BOOLEAN,
          fault \in CoverFaults :
       \E got \in {ReadCoverOption(ZipFile(a), key, fault)} :
       \E plan \in {PrepareCover(a, key)} :
       \E written \in {WriteCoverToEPUBOutcome(ZipFile(a), fault, plan)} :
         edits' = [edits EXCEPT ![c] =
                      [endpoint |-> "cover", fault |-> fault]
                          @@ CoverResponse(writeToEPUB, fault, got, written)]

InitEdit ==
    /\ FieldIdle
    /\ CoverIdle
    /\ ArchInitWith(<<>>)
    /\ HostIdle

NextEdit == \E c \in Clients : HandleUpdateMetadata(c) \/ HandleUpdateCover(c)

SpecEdit == InitEdit /\ [][NextEdit]_vars

ErrorKinds ==
    {"PackageNotFound", "MetadataSectionNotFound", "NoChangesApplied",
     "ImageDecodeFailed", "PermissionDenied", "IOError"}

Failed(c) == edits[c].pc = "done" /\ edits[c].kind \in ErrorKinds

\* C17: two requests to the same endpoint (metadata update or cover update)
\* that fail with different error kinds get different responses: they
\* differ in the status or in the message.
C17_DistinctSignals ==
    \A c1, c2 \in Clients :
        (/\ Failed(c1) /\ Failed(c2)
         /\ edits[c1].endpoint = edits[c2].endpoint
         /\ edits[c1].kind # edits[c2].kind)
        => <<edits[c1].status, edits[c1].msg>> # <<edits[c2].status, edits[c2].msg>>

\* the same statement for the cover endpoint alone
C17_CoverSignals ==
    \A c1, c2 \in Clients :
        (/\ Failed(c1) /\ Failed(c2)
         /\ edits[c1].endpoint = "cover" /\ edits[c2].endpoint = "cover"
         /\ edits[c1].kind # edits[c2].kind)
        => <<edits[c1].status, edits[c1].msg>> # <<edits[c2].status, edits[c2].msg>>

\* a missing package document and a zip that fails to open, answered alike
C17_WitnessSameSignal ==
    /\ Failed("a") /\ Failed("b")
    /\ edits["a"].endpoint = "metadata" /\ edits["b"].endpoint = "metadata"
    /\ edits["a"].kind = "PackageNotFound" /\ edits["b"].kind = "IOError"
    /\ edits["a"].msg = edits["b"].msg /\ edits["a"].status = edits["b"].status

(***************************************************************************)
(* The field reader on its own: ExtractLiveMetadata's reading of a package *)
(* document whose metadata block holds identifier and subject elements in  *)
(* both tag forms                                                          *)
(***************************************************************************)
MaxElems == 3

IsbnScheme == "opf:scheme=\"ISBN\""

ReadPieces ==
    { <<Open("dc", "identifier")>> \o S(<<"u", "1">>) \o <<Close("dc", "identifier")>>,
      <<Open("", "identifier")>> \o S(<<"b", "2">>) \o <<Close("", "identifier")>>,
      <<OpenA("dc", "identifier", IsbnScheme)>> \o S(<<"9", "7">>)
          \o <<Close("dc", "identifier")>>,
      <<Open("", "identifier")>> \o S(<<"I", "S", "B", "N", "1">>)
          \o <<Close("", "identifier")>>,
      <<Open("dc", "identifier")>> \o S(<<" ">>) \o <<Close("dc", "identifier")>>,
      <<[SelfTag("dc", "identifier") EXCEPT !.a = IsbnScheme]>>,
      <<Open("dc", "subject")>> \o S(<<"x">>) \o <<Close("dc", "subject")>>,
      <<Open("", "subject")>> \o S(<<"y">>) \o <<Close("", "subject")>>,
      <<Open("dc", "subject")>> \o S(<<" ", "y">>) \o <<Close("dc", "subject")>>,
      <<Open("", "subject")>> \o S(<<NL>>) \o <<Close("", "subject")>>,
      <<SelfTag("dc", "subject")>> }

RECURSIVE ReadBlocks(_)
ReadBlocks(n) ==
    IF n = 0 THEN {<<>>}
    ELSE ReadBlocks(n - 1) \cup {b \o p : b \in ReadBlocks(n - 1), p \in ReadPieces}

InitRead ==
    /\ opf \in {DocOf(b) : b \in ReadBlocks(MaxElems)}
    /\ before = opf
    /\ lastOp = [kind |-> "none"]
    /\ outcome = "none"
    /\ live = NoMetadata
    /\ writes = 0
    /\ ArchInitWith(<<>>)
    /\ CoverIdle
    /\ HostIdle

\* extractMetadataBlock and the field extractions of ExtractLiveMetadata
ReadLive ==
    /\ lastOp.kind = "none"
    /\ \E r \in {LiveMetadataOf(opf)} :
         /\ live' = r.meta
         /\ outcome' = IF r.err = "" THEN "ok" ELSE r.err
    /\ lastOp' = [kind |-> "read"]
    /\ UNCHANGED <<opf, before, writes, archVars, coverVars, hostVars>>

NextRead == ReadLive

SpecRead == InitRead /\ [][NextRead]_vars

(***************************************************************************)
(* Properties of the field reader                                          *)
(***************************************************************************)
\* the elements named t of a block, in both tag forms, in the order of the
\* text: a self-closing tag is an element without content
RECURSIVE ElementsFrom(_, _, _)
ElementsFrom(b, i, t) ==
    IF i > Len(b) THEN <<>>
    ELSE IF b[i].k = "self" /\ b[i].t = t /\ b[i].p \in {"dc", ""}
    THEN <<[p |-> b[i].p, a |-> b[i].a, value |-> <<>>]>> \o ElementsFrom(b, i + 1, t)
    ELSE IF b[i].k = "open" /\ b[i].t = t /\ b[i].p \in {"dc", ""}
            /\ EndsAfter(b, i, b[i].p, t) # {}
    THEN <<[p |-> b[i].p, a |-> b[i].a,
            value |-> cleanXMLValue(SubSeq(b, i + 1, MinOf(EndsAfter(b, i, b[i].p, t)) - 1))]>>
             \o ElementsFrom(b, MinOf(EndsAfter(b, i, b[i].p, t)) + 1, t)
    ELSE ElementsFrom(b, i + 1, t)

ReadBlock == metadataInnerBlock(opf).inner
WasRead == lastOp.kind = "read" /\ outcome = "ok"

\* the identifier elements that have a value, and those among them that
\* carry "isbn" in their attributes or value
Identifiers == SelectSeq(ElementsFrom(ReadBlock, 1, "identifier"), LAMBDA e : e.value # <<>>)
IsbnIdentifiers ==
    SelectSeq(Identifiers, LAMBDA e : e.a \in IsbnAttrs \/ ContainsIsbn(e.value))

\* C18: the identifier read is the value of the first identifier element,
\* of either tag form, whose attributes or value contain "isbn"; when no
\* element contains "isbn" it is the value of the first identifier element;
\* it is empty only when no identifier element has a value.
C18_PreferredIdentifier ==
    WasRead =>
        live.Identifier =
            IF IsbnIdentifiers # <<>> THEN IsbnIdentifiers[1].value
            ELSE IF Identifiers # <<>> THEN Identifiers[1].value
            ELSE <<>>

\* the parts of C18 that do not depend on the order of the two tag forms:
\* the identifier is the value of some element that contains "isbn" when
\* there is one, of some element otherwise, and empty only when no element
\* has a value
C18_SomeIsbnIdentifier ==
    WasRead =>
        IF IsbnIdentifiers # <<>>
        THEN \E i \in 1..Len(IsbnIdentifiers) : live.Identifier = IsbnIdentifiers[i].value
        ELSE IF Identifiers # <<>>
        THEN \E i \in 1..Len(Identifiers) : live.Identifier = Identifiers[i].value
        ELSE live.Identifier = <<>>

\* an ISBN identifier that is not the first identifier of the block is read
C18_WitnessIsbnWins ==
    /\ WasRead
    /\ IsbnIdentifiers # <<>> /\ Identifiers[1] # IsbnIdentifiers[1]
    /\ live.Identifier = IsbnIdentifiers[1].value

\* the cleaned values of the subject elements of the block, in the order of
\* the text
SubjectValues ==
    LET es == ElementsFrom(ReadBlock, 1, "subject")
    IN  [i \in 1..Len(es) |-> es[i].value]

\* the position at which value v is first seen in the block
FirstSeen(v) == MinOf({i \in 1..Len(SubjectValues) : SubjectValues[i] = v})

\* C19: the subjects read are the non-empty cleaned values of the subject
\* elements of the block, of both tag forms, each exactly once and without
\* empty strings, and a value first seen earlier in the block stands before
\* a value first seen later, whichever tag form each uses.
C19_SubjectsFirstSeen ==
    WasRead =>
        /\ {live.Subjects[i] : i \in 1..Len(live.Subjects)}
              = {SubjectValues[i] : i \in 1..Len(SubjectValues)} \ {<<>>}
        /\ \A i, j \in 1..Len(live.Subjects) :
              i < j => /\ live.Subjects[i] # live.Subjects[j]
                       /\ FirstSeen(live.Subjects[i]) < FirstSeen(live.Subjects[j])

\* the same without the order across the two tag forms: every value once,
\* no empty string
C19_SubjectsOnce ==
    WasRead =>
        /\ {live.Subjects[i] : i \in 1..Len(live.Subjects)}
              = {SubjectValues[i] : i \in 1..Len(SubjectValues)} \ {<<>>}
        /\ \A i, j \in 1..Len(live.Subjects) :
              i < j => live.Subjects[i] # live.Subjects[j]

\* a bare subject that stands before a dc:subject in the block
C19_WitnessMixed ==
    /\ WasRead
    /\ Len(live.Subjects) = 2
    /\ ElementsFrom(ReadBlock, 1, "subject")[1].p = ""
    /\ ElementsFrom(ReadBlock, 1, "subject")[2].p = "dc"

(***************************************************************************)
(* The bulk scan: Scanner.Start.  The walk is the sequence of directory    *)
(* entries filepath.WalkDir hands to the callback, one action per call of  *)
(* the callback; the database can fail at Begin, SaveBookTx and Commit.    *)
(***************************************************************************)
MaxBooks == 2

\* xml.Decode into OPF: the character data of the last element of the
\* metadata element with the local name t, whatever its prefix
XMLField(doc, t) ==
    LET b      == ElementSpan(doc, "metadata")
        starts == {i \in 1..Len(b) : b[i].k \in {"open", "self"} /\ b[i].t = t}
        i      == MaxOf(starts)
        ends   == {j \in (i + 1)..Len(b) : b[j].k = "close" /\ b[j].t = t /\ b[j].p = b[i].p}
    IN  IF starts = {} THEN <<>>
        ELSE IF b[i].k = "self" \/ ends = {} THEN <<>>
        ELSE UnescapeString(TextOf(SubSeq(b, i + 1, MinOf(ends) - 1)))

NilOPF == [err |-> "", nil |-> TRUE, Title |-> <<>>, Creator |-> <<>>, Description |-> <<>>]

ExtractMetadata(file) ==
    LET Decode(doc) ==
            IF ~IsPackageDoc(doc) THEN [NilOPF EXCEPT !.err = "xml"]
            ELSE [err |-> "", nil |-> FALSE, Title |-> XMLField(doc, "title"),
                  Creator |-> XMLField(doc, "creator"),
                  Description |-> XMLField(doc, "description")]
        Find(files, f, hits) ==
            IF f.err # "" THEN [NilOPF EXCEPT !.err = f.err]
            ELSE IF f.path = <<>> \/ hits = {} THEN NilOPF
            ELSE Decode(files[MinOf(hits)].data)
        Opened(files, f) == Find(files, f, {i \in 1..Len(files) : files[i].name = f.path})
    IN  IF ~OpenReaderOK(file) THEN [NilOPF EXCEPT !.err = "io"]
        ELSE Opened(file.entries, findOPFPath(file.entries))

\* a callback that keeps what ExtractMetadata returned
ScanMetadataStrict(meta, name) == meta

\* the metadata the callback goes on with: the file name without its
\* extension as title when ExtractMetadata gave nothing
ScanMetadata(meta, name) ==
    IF meta.err # "" \/ meta.nil \/ meta.Title = <<>>
    THEN [NilOPF EXCEPT !.nil = FALSE, !.Title = name.stem, !.Creator = UnknownAuthor]
    ELSE meta

\* SaveCover as one call
SaveCoverOutcome(file, sib, copyOK) ==
    IF SiblingIsFile(sib) THEN (IF copyOK THEN "" ELSE "io")
    ELSE IF ~OpenReaderOK(file) THEN "io"
    ELSE IF LocateInArchive(file.entries, TRUE).source = "none" THEN "no cover found"
    ELSE IF copyOK THEN "" ELSE "io"

\* a book without package document
ArchiveNoPackage == <<eCh1, eImg1>>

DirEntry(stem, ext, file, sib) ==
    [name |-> [stem |-> stem, ext |-> ext], isDir |-> FALSE, walkErr |-> FALSE,
     needsReScan |-> TRUE, file |-> file, sibling |-> sib]

ScanPool ==
    { DirEntry(<<"b", "1">>, "epub", ZipFile(ArchiveMetaCover), NoBlob),
      DirEntry(<<"b", "2">>, "epub", ZipFile(ArchivePlain), NoBlob),
      DirEntry(<<"b", "3">>, "EPUB", ZipFile(ArchiveNoMetadata), NoBlob),
      DirEntry(<<"b", "4">>, "epub", ZipFile(ArchiveBadContainer), NoBlob),
      DirEntry(<<"b", "5">>, "epub", CorruptFile, NoBlob),
      DirEntry(<<"b", "6">>, "epub", ZipFile(ArchiveNoPackage), Blob(SiblingImage)),
      DirEntry(<<"b", "7">>, "epub", ZipFile(ArchiveDotPath), NoBlob),
      DirEntry(<<"b", "8">>, "epub", ZipFile(ArchiveSelfClosing), NoBlob),
      DirEntry(<<"b", "9">>, "epub", ZipFile(ArchiveNoPackage), NoBlob),
      [DirEntry(<<"o", "l", "d">>, "epub", ZipFile(ArchiveCanonical), NoBlob)
          EXCEPT !.needsReScan = FALSE],
      [DirEntry(<<"d">>, "epub", NoFile, NoBlob) EXCEPT !.isDir = TRUE],
      [DirEntry(<<"g">>, "epub", NoFile, NoBlob) EXCEPT !.walkErr = TRUE],
      DirEntry(<<"n">>, "txt", NoFile, NoBlob) }

RECURSIVE Walks(_)
Walks(n) ==
    IF n = 0 THEN {<<>>}
    ELSE Walks(n - 1) \cup {Append(w, e) : w \in Walks(n - 1), e \in ScanPool}

InitScan ==
    /\ FieldIdle
    /\ CoverIdle
    /\ ArchInitWith(<<>>)
    /\ edits = [c \in Clients |-> NoRequest]
    /\ SiteIdle
    /\ \E w \in Walks(MaxBooks) : scan = [NoScan EXCEPT !.walk = w]

\* Scanner.Start up to the call of filepath.WalkDir, lines 581-604
ScanBegin ==
    /\ scan.pc = "idle"
    /\ UNCHANGED <<fieldVars, archVars, coverVars, edits, siteVars>>
    /\ \/ scan' = [scan EXCEPT !.pc = "done", !.err = "root"]
       \/ scan' = [scan EXCEPT !.pc = "done", !.err = "begin"]
       \/ scan' = [scan EXCEPT !.pc = "walk", !.pos = 1]

\* one call of the callback of filepath.WalkDir, lines 606-650
ScanVisit ==
    /\ scan.pc = "walk" /\ scan.pos <= Len(scan.walk)
    /\ UNCHANGED <<fieldVars, archVars, coverVars, edits, siteVars>>
    /\ \E saveOK \in BOOLEAN, copyOK \in BOOLEAN :
       \E d \in {scan.walk[scan.pos]} :
       \E meta \in {ScanMetadata(ExtractMetadata(d.file), d.name)} :
       \E cover \in {SaveCoverOutcome(d.file, d.sibling, copyOK)} :
       \E missing \in {ExtractMetadata(d.file) # meta} :
         scan' =
           IF d.walkErr \/ d.isDir \/ LowerStr(d.name.ext) # "epub"
           THEN [scan EXCEPT !.pos = @ + 1]
           ELSE IF ~d.needsReScan
           THEN [scan EXCEPT !.pos = @ + 1, !.stats.Total = @ + 1]
           ELSE IF ~saveOK
           THEN [scan EXCEPT !.pos = @ + 1, !.stats.Total = @ + 1,
                             !.stats.Rescanned = @ + 1,
                             !.stats.NoMeta = IF missing THEN @ + 1 ELSE @,
                             !.saveErrors = @ + 1]
           ELSE [scan EXCEPT !.pos = @ + 1, !.stats.Total = @ + 1,
                             !.stats.Rescanned = @ + 1,
                             !.stats.NoMeta = IF missing THEN @ + 1 ELSE @,
                             !.stats.NoCover = IF cover # "" THEN @ + 1 ELSE @,
                             !.tx = Append(@, [Path |-> scan.pos, Title |-> meta.Title,
                                               Author |-> meta.Creator,
                                               Description |-> meta.Description]),
                             !.covers = IF cover = "" THEN @ \cup {scan.pos} ELSE @]

\* tx.Commit() and the deferred tx.Rollback(), lines 651-657
ScanCommit ==
    /\ scan.pc = "walk" /\ scan.pos > Len(scan.walk)
    /\ UNCHANGED <<fieldVars, archVars, coverVars, edits, siteVars>>
    /\ \/ scan' = [scan EXCEPT !.pc = "done", !.committed = TRUE]
       \/ scan' = [scan EXCEPT !.pc = "done", !.err = "commit", !.tx = <<>>]

NextScan == ScanBegin \/ ScanVisit \/ ScanCommit

SpecScan == InitScan /\ [][NextScan]_vars

(***************************************************************************)
(* Properties of the bulk scan                                             *)
(***************************************************************************)
\* the directory entries the scan has to process: EPUB files that changed
IsEpub(d) == ~d.isDir /\ ~d.walkErr /\ LowerStr(d.name.ext) = "epub"
IsBook(d) == IsEpub(d) /\ d.needsReScan

\* the package document or its metadata section cannot be found or parsed:
\* the zip does not open, neither container.xml nor a name ending in .opf
\* leads to an entry, the entry is no package document, or it has no
\* metadata element
CannotRead(file) ==
    \/ ~OpenReaderOK(file)
    \/ /\ OpfEntries(file.entries) = {}
       /\ readZipEntry(file.entries, ContainerPath(file.entries)).err # ""
    \/ ~IsPackageDoc(PackageDocumentOf(file))
    \/ LacksMetadata(PackageDocumentOf(file))

NoLocatableCover(d) ==
    /\ ~SiblingIsFile(d.sibling)
    /\ \/ ~OpenReaderOK(d.file)
       \/ LocateInArchive(d.file.entries, TRUE).source = "none"

Visited == 1..(scan.pos - 1)
SavedAt(i) == {j \in 1..Len(scan.tx) : scan.tx[j].Path = i}

BookPaths == {"a.epub", "b.epub", "c.epub"}

RECURSIVE DistinctSeqs(_, _)
DistinctSeqs(pool, n) ==
    IF n = 0 THEN {<<>>}
    ELSE DistinctSeqs(pool, n - 1)
           \cup {Append(w, e) : w \in {v \in DistinctSeqs(pool, n - 1) : Len(v) = n - 1},
                                e \in pool}

PathsOf(w) == {w[i] : i \in 1..Len(w)}

\* the books tables earlier scans left: every path once, ids in order of
\* insertion
Catalogs ==
    {[i \in 1..Len(w) |-> [id |-> i, path |-> w[i]]] :
        w \in {v \in DistinctSeqs(BookPaths, MaxBooks) : Cardinality(PathsOf(v)) = Len(v)}}

\* the walks over a library: every path once, changed since its row was
\* written or not
CatalogWalks ==
    UNION {{[i \in 1..Len(w) |-> [path |-> w[i], newer |-> i \in n]] : n \in SUBSET (1..Len(w))} :
        w \in {v \in DistinctSeqs(BookPaths, MaxBooks) : Cardinality(PathsOf(v)) = Len(v)}}

RowsWithPath(rows, path) == {i \in 1..Len(rows) : rows[i].path = path}

\* NeedsReScan: no row for the path, or the file is newer than its row
NeedsReScan(rows, d) == RowsWithPath(rows, d.path) = {} \/ d.newer

\* saveBookSQL on a connection: INSERT ... ON CONFLICT(path) DO UPDATE;
\* id INTEGER PRIMARY KEY AUTOINCREMENT
saveBookSQL(db, path) ==
    IF RowsWithPath(db.rows, path) # {}
    THEN db
    ELSE [db EXCEPT !.rows = Append(@, [id |-> db.seq + 1, path |-> path]),
                    !.seq = @ + 1, !.last = db.seq + 1]

\* SaveBookTx: the statement, then result.LastInsertId()
SaveBookTx(db, path, execOK) ==
    IF ~execOK THEN [db |-> db, id |-> 0, err |-> "exec"]
    ELSE LET Result(after) == [db |-> after, id |-> after.last, err |-> ""]
         IN  Result(saveBookSQL(db, path))

InitCatalog ==
    /\ FieldIdle
    /\ CoverIdle
    /\ ArchInitWith(<<>>)
    /\ edits = [c \in Clients |-> NoRequest]
    /\ scan = NoScan
    /\ sessions = [tokens |-> {}]
    /\ rebuild = [running |-> FALSE]
    /\ \E rows \in Catalogs, w \in CatalogWalks :
       \E last \in 0..Len(rows) :
         catalog = [pc |-> "idle", rows |-> rows, rows0 |-> rows, seq |-> Len(rows),
                    last |-> last, walk |-> w, pos |-> 0, saved |-> <<>>, err |-> ""]

CatalogFrame == UNCHANGED <<fieldVars, archVars, coverVars, edits, scan, sessions, rebuild>>

\* Scanner.Start up to filepath.WalkDir: s.db.Begin()
CatalogBegin ==
    /\ catalog.pc = "idle"
    /\ CatalogFrame
    /\ \/ catalog' = [catalog EXCEPT !.pc = "done", !.err = "begin"]
       \/ catalog' = [catalog EXCEPT !.pc = "walk", !.pos = 1]

\* one call of the callback for an EPUB file: NeedsReScan, SaveBookTx,
\* SaveCover(path, int(id))
CatalogVisit ==
    /\ catalog.pc = "walk" /\ catalog.pos <= Len(catalog.walk)
    /\ CatalogFrame
    /\ \E execOK \in BOOLEAN :
       \E d \in {catalog.walk[catalog.pos]} :
       \E r \in {SaveBookTx(catalog, d.path, execOK)} :
         catalog' =
           IF ~NeedsReScan(catalog.rows0, d) \/ r.err # ""
           THEN [catalog EXCEPT !.pos = @ + 1]
           ELSE [r.db EXCEPT !.pos = @ + 1,
                             !.saved = Append(@, [path |-> d.path, slot |-> r.id,
                                                  updated |-> RowsWithPath(catalog.rows, d.path) # {}])]

\* tx.Commit(), or the deferred tx.Rollback()
CatalogCommit ==
    /\ catalog.pc = "walk" /\ catalog.pos > Len(catalog.walk)
    /\ CatalogFrame
    /\ \/ catalog' = [catalog EXCEPT !.pc = "done"]
       \/ catalog' = [catalog EXCEPT !.pc = "done", !.err = "commit", !.rows = catalog.rows0]

NextCatalog == CatalogBegin \/ CatalogVisit \/ CatalogCommit

SpecCatalog == InitCatalog /\ [][NextCatalog]_vars

(***************************************************************************)
(* Properties of the scan's cache slots                                    *)
(***************************************************************************)
IdOfPath(rows, path) == rows[MinOf(RowsWithPath(rows, path))].id

\* C21: before the scan's transaction ends, every cover the scan wrote is
\* in the slot of the id of the row that holds the book's path, for
\* inserted and for updated rows alike.
C21_SlotOfOwnRow ==
    catalog.pc = "walk" =>
       \A i \in 1..Len(catalog.saved) :
          catalog.saved[i].slot = IdOfPath(catalog.rows, catalog.saved[i].path)

\* the same for the rows the scan inserted
C21_InsertedSlot ==
    catalog.pc = "walk" =>
       \A i \in 1..Len(catalog.saved) :
          ~catalog.saved[i].updated =>
             catalog.saved[i].slot = IdOfPath(catalog.rows, catalog.saved[i].path)

(***************************************************************************)
(* Admin sessions: NewServer's credentials, HandleAuthLogin,               *)
(* HandleAuthLogout, authenticatedUser and requireAuth as the Router       *)
(* applies it.  Time is counted in hours; tokens are drawn fresh, as 32    *)
(* random bytes are.                                                       *)
(***************************************************************************)
sessionTTL == 12
MaxTokens == 1
MaxTicks == 2

\* the routes the Router wraps in requireAuth
ProtectedRoutes ==
    {"GET /api/books/{id}/metadata/live", "PUT /api/books/{id}/metadata",
     "GET /api/books/{id}/covers/candidates", "GET /api/books/{id}/covers/online",
     "GET /api/books/{id}/covers/candidates/{key}", "PUT /api/books/{id}/cover",
     "POST /api/admin/rebuild", "POST /api/admin/rescan",
     "GET /api/admin/rebuild/status"}

StatusRoute == "GET /api/auth/status"

AdminName == <<"admin">>
AdminUsers == {AdminName, <<"root">>}
AdminPasswords == {<<>>, <<" ">>, <<"p", "w">>}
LoginNames == {<<>>, AdminName, <<" ", "admin">>, <<"root">>}
LoginPasswords == {<<>>, <<"p", "w">>, <<"p", "w", " ">>}

NoCookie == 0
Cookies == {NoCookie} \cup (1..MaxTokens)

NoAuthRequest == [route |-> "", cookie |-> NoCookie, status |-> 0, ran |-> FALSE]

\* an authenticatedUser that keeps expired sessions
authenticatedUserNoExpiry(s, cookie) ==
    IF TrimSpace(s.adminPass) = <<>> THEN [map |-> s.map, ok |-> FALSE]
    ELSE IF cookie = NoCookie THEN [map |-> s.map, ok |-> FALSE]
    ELSE IF cookie \notin DOMAIN s.map THEN [map |-> s.map, ok |-> FALSE]
    ELSE [map |-> s.map, ok |-> TRUE]

\* authenticatedUser: the session map after the call and whether the
\* request is authenticated
authenticatedUser(s, cookie) ==
    IF TrimSpace(s.adminPass) = <<>> THEN [map |-> s.map, ok |-> FALSE]
    ELSE IF cookie = NoCookie THEN [map |-> s.map, ok |-> FALSE]
    ELSE IF cookie \notin DOMAIN s.map THEN [map |-> s.map, ok |-> FALSE]
    ELSE IF s.now > s.map[cookie].ExpiresAt
    THEN [map |-> [t \in DOMAIN s.map \ {cookie} |-> s.map[t]], ok |-> FALSE]
    ELSE [map |-> s.map, ok |-> TRUE]

InitAuth ==
    /\ FieldIdle
    /\ CoverIdle
    /\ ArchInitWith(<<>>)
    /\ edits = [c \in Clients |-> NoRequest]
    /\ scan = NoScan
    /\ catalog = [rows |-> <<>>]
    /\ rebuild = [running |-> FALSE]
    /\ \E u \in AdminUsers, p \in AdminPasswords :
         sessions = [adminUser |-> u, adminPass |-> p, map |-> <<>>, now |-> 0,
                     ticks |-> 0, next |-> 1, issued |-> <<>>, loggedOut |-> {},
                     accepted |-> {}, last |-> NoAuthRequest]

AuthFrame == UNCHANGED <<fieldVars, archVars, coverVars, edits, scan, catalog, rebuild>>

\* POST /api/auth/login
HandleAuthLogin ==
    /\ AuthFrame
    /\ \E name \in LoginNames, password \in LoginPasswords, randOK \in BOOLEAN :
       \E user \in {IF TrimSpace(name) = <<>> THEN AdminName ELSE TrimSpace(name)} :
         sessions' =
           IF TrimSpace(sessions.adminPass) = <<>>
           THEN [sessions EXCEPT !.last = [route |-> "login", cookie |-> NoCookie,
                                           status |-> 503, ran |-> FALSE]]
           ELSE IF user # sessions.adminUser \/ password # sessions.adminPass
           THEN [sessions EXCEPT !.last = [route |-> "login", cookie |-> NoCookie,
                                           status |-> 401, ran |-> FALSE]]
           ELSE IF ~randOK \/ sessions.next > MaxTokens
           THEN [sessions EXCEPT !.last = [route |-> "login", cookie |-> NoCookie,
                                           status |-> 500, ran |-> FALSE]]
           ELSE [sessions EXCEPT
                   !.map = (sessions.next :> [Username |-> user,
                                              ExpiresAt |-> sessions.now + sessionTTL]) @@ @,
                   !.issued = (sessions.next :> sessions.now + sessionTTL) @@ @,
                   !.next = @ + 1,
                   !.last = [route |-> "login", cookie |-> sessions.next,
                             status |-> 200, ran |-> TRUE]]

\* POST /api/auth/logout
HandleAuthLogout ==
    /\ AuthFrame
    /\ \E cookie \in Cookies :
         sessions' =
           [sessions EXCEPT
              !.map = [t \in DOMAIN sessions.map \ {cookie} |-> sessions.map[t]],
              !.loggedOut = IF cookie \in DOMAIN sessions.issued THEN @ \cup {cookie} ELSE @,
              !.last = [route |-> "logout", cookie |-> cookie, status |-> 200,
                        ran |-> TRUE]]

\* a request to a route behind requireAuth
RequireAuth ==
    /\ AuthFrame
    /\ \E route \in ProtectedRoutes, cookie \in Cookies :
       \E a \in {authenticatedUser(sessions, cookie)} :
         sessions' =
           [sessions EXCEPT
              !.map = a.map,
              !.accepted = IF a.ok THEN @ \cup {cookie} ELSE @,
              !.last = [route |-> route, cookie |-> cookie,
                        status |-> IF a.ok THEN 200 ELSE 401, ran |-> a.ok]]

\* GET /api/auth/status
HandleAuthStatus ==
    /\ AuthFrame
    /\ \E cookie \in Cookies :
       \E a \in {authenticatedUser(sessions, cookie)} :
         sessions' =
           [sessions EXCEPT
              !.map = a.map,
              !.last = [route |-> StatusRoute, cookie |-> cookie, status |-> 200,
                        ran |-> TRUE]]

\* time passes: an hour, or the life of a session
Tick ==
    /\ AuthFrame
    /\ sessions.ticks < MaxTicks
    /\ \E d \in {1, sessionTTL} :
         sessions' = [sessions EXCEPT !.now = @ + d, !.ticks = @ + 1,
                                       !.last = NoAuthRequest]

NextAuth == HandleAuthLogin \/ HandleAuthLogout \/ RequireAuth \/ HandleAuthStatus \/ Tick

SpecAuth == InitAuth /\ [][NextAuth]_vars

(***************************************************************************)
(* Properties of the admin sessions                                        *)
(***************************************************************************)
LastProtected == sessions.last.route \in ProtectedRoutes

\* C22: a handler behind requireAuth runs only for a token a successful
\* login issued, that was not logged out and whose twelve hours have not
\* passed; sessions exist only for logins with the configured credentials;
\* a token logged out or expired is in no later state accepted; with an
\* empty ADMIN_PASSWORD no token is issued, no handler runs and login is
\* answered 503.
C22_AdminOnly ==
    /\ (LastProtected /\ sessions.last.ran) =>
          /\ sessions.last.cookie \in DOMAIN sessions.issued
          /\ sessions.last.cookie \notin sessions.loggedOut
          /\ sessions.now <= sessions.issued[sessions.last.cookie]
          /\ TrimSpace(sessions.adminPass) # <<>>
    /\ (LastProtected /\ ~sessions.last.ran) => sessions.last.status = 401
    /\ \A t \in DOMAIN sessions.map :
          /\ t \in DOMAIN sessions.issued
          /\ t \notin sessions.loggedOut
          /\ sessions.map[t].Username = sessions.adminUser
          /\ sessions.map[t].ExpiresAt = sessions.issued[t]
    /\ TrimSpace(sessions.adminPass) = <<>> =>
          /\ sessions.issued = <<>>
          /\ sessions.accepted = {}
          /\ sessions.last.route = "login" => sessions.last.status = 503

\* a token that a handler accepted is refused after its logout
C22_Witness ==
    /\ LastProtected /\ ~sessions.last.ran
    /\ sessions.last.cookie \in sessions.accepted
    /\ sessions.last.cookie \in sessions.loggedOut

(***************************************************************************)
(* Deletion as a change                                                    *)
(***************************************************************************)
\* the ten operations of rewriteOPFMetadata with the values of an update
FieldOps(u) ==
    << [k |-> "single", t |-> "title", v |-> u.Title],
       [k |-> "single", t |-> "creator", v |-> u.Creator],
       [k |-> "single", t |-> "language", v |-> u.Language],
       [k |-> "single", t |-> "identifier", v |-> u.Identifier],
       [k |-> "single", t |-> "publisher", v |-> u.Publisher],
       [k |-> "single", t |-> "date", v |-> u.Date],
       [k |-> "single", t |-> "description", v |-> u.Description],
       [k |-> "multi", t |-> "subject", v |-> u.Subjects],
       [k |-> "meta", t |-> "calibre:series", v |-> u.Series],
       [k |-> "meta", t |-> "calibre:series_index", v |-> u.SeriesIndex] >>

ApplyFieldOp(op, st) ==
    CASE op.k = "single" -> setSingleTag(st, op.t, op.v)
      [] op.k = "multi"  -> setMultiTag(st, op.t, op.v)
      [] op.k = "meta"   -> setMetaNameContent(st, op.t, op.v)

\* the changed flag before the first operation and after each one
RECURSIVE ChangedFlags(_, _)
ChangedFlags(ops, st) ==
    IF ops = <<>> THEN <<st.c>>
    ELSE <<st.c>> \o ChangedFlags(Tail(ops), ApplyFieldOp(Head(ops), st))

DeletionCase ==
    /\ lastOp.kind = "update"
    /\ AllFieldsEmpty(lastOp.u)
    /\ metadataInnerBlock(before).err = ""
    /\ HoldsManaged(InnerOf(before))

HoldsSelfClosing(b) == \E i \in 1..Len(b) : IsManagedStart(b[i]) /\ b[i].k = "self"

\* C23: an update whose fields are all empty, applied to a metadata block
\* that holds a managed element, succeeds and leaves a block without
\* managed elements; in every update the changed flag, once set by one of
\* the ten operations, stays set.
C23_DeletionIsChange ==
    /\ DeletionCase => (outcome = "ok" /\ ~HoldsManaged(InnerOf(opf)))
    /\ (lastOp.kind = "update" /\ metadataInnerBlock(before).err = "") =>
          \E flags \in {ChangedFlags(FieldOps(lastOp.u),
                                     [m |-> InnerOf(before), c |-> FALSE])} :
             /\ Len(flags) = 11
             /\ \A i \in 1..10 : flags[i] => flags[i + 1]
             /\ flags[11] <=> (outcome = "ok")

\* the same for blocks whose managed elements all have a closing tag
C23_DeletionOfClosedElements ==
    /\ (DeletionCase /\ ~HoldsSelfClosing(InnerOf(before)))
          => (outcome = "ok" /\ ~HoldsManaged(InnerOf(opf)))
    /\ (lastOp.kind = "update" /\ metadataInnerBlock(before).err = "") =>
          \E flags \in {ChangedFlags(FieldOps(lastOp.u),
                                     [m |-> InnerOf(before), c |-> FALSE])} :
             /\ \A i \in 1..10 : flags[i] => flags[i + 1]
             /\ flags[11] <=> (outcome = "ok")

(***************************************************************************)
(* Errors of UpdateEPUBMetadata and the file at the path                   *)
(***************************************************************************)
MetadataCallFailed(wr) ==
    pc[wr] = "done" /\ job[wr].kind = "meta" /\ ret[wr].err # ""

\* C24: whenever UpdateEPUBMetadata has returned an error, the file at the
\* path is the file as it was when the call began.
C24_ErrorLeavesFile ==
    MetadataCallFailed("w1") => disk[EpubPath] = orig["w1"]

\* the same for the errors of every step but the final re-read
C24_ErrorBeforeReread ==
    (MetadataCallFailed("w1") /\ ret["w1"].step # "reread") => disk[EpubPath] = orig["w1"]

(***************************************************************************)
(* Two writers on one EPUB path: both calls of UpdateEPUBMetadata and      *)
(* WriteCoverToEPUB run their steps in any interleaving                    *)
(***************************************************************************)
RaceArchives == {ArchiveMetaCover, ArchivePlain}

InitRace ==
    /\ FieldIdle
    /\ CoverIdle
    /\ HostIdle
    /\ \E a \in RaceArchives : ArchInitWith(a)

NextRace ==
    \E wr \in Writers :
        \/ BeginMetadata(wr)
        \/ BeginCover(wr)
        \/ CreateTemp(wr)
        \/ MetadataEntry(wr)
        \/ CoverEntry(wr)
        \/ FinishCover(wr)
        \/ CloseWriter(wr)
        \/ CloseTemp(wr)
        \/ Rename(wr)
        \/ Reread(wr)
        \/ Cleanup(wr)

SpecRace == InitRace /\ [][NextRace]_vars

(***************************************************************************)
(* Properties of two concurrent writers                                    *)
(***************************************************************************)
\* the writer has created its temporary file and neither renamed nor
\* removed it
OwnsTemp(wr) == pc[wr] \notin {"idle", "createTemp", "done"} /\ job[wr].cleanupTemp

\* each writer has made one call and both calls have returned
BothReturned == calls = Cardinality(Writers) /\ \A wr \in Writers : pc[wr] = "done"

\* what the calls that replaced the file wrote, each computed from the
\* archive it read; the original when no call replaced the file
FinalFiles ==
    IF \E wr \in Writers : Replaced(wr)
    THEN {ZipFile(FullOutput(job[wr])) : wr \in {w \in Writers : Replaced(w)}}
    ELSE {orig[wr] : wr \in Writers}

\* C25: two mutating calls on one EPUB path, in every interleaving: the
\* temporary files of the two calls are different files; the file at the
\* path is at every instant a complete archive; after both have returned,
\* the file is the complete output of one call that replaced it, computed
\* from the archive that call read, and no temporary file is left.
C25_ConcurrentWriters ==
    /\ \A a \in Writers, b \in Writers :
          (a # b /\ OwnsTemp(a) /\ OwnsTemp(b)) => job[a].temp # job[b].temp
    /\ OpenReaderOK(disk[EpubPath])
    /\ BothReturned => (disk[EpubPath] \in FinalFiles /\ NoTempLeft)

\* both calls read the original, both succeeded with different outputs
C25_Witness ==
    /\ BothReturned
    /\ \A wr \in Writers : Replaced(wr) /\ ret[wr].err = ""
    /\ orig["w1"] = orig["w2"]
    /\ FullOutput(job["w1"]) # FullOutput(job["w2"])
    /\ disk[EpubPath] = ZipFile(FullOutput(job["w1"]))

(***************************************************************************)
(* Library scans: the scan main starts in the background, and the          *)
(* rebuild/rescan jobs of startScanJob and runScanJob.  rebuildState is    *)
(* read and written under rebuildMu, one action per critical section or    *)
(* blocking call of the job's goroutine.                                   *)
(***************************************************************************)
MaxJobs == 2

Operations == {"rebuild", "rescan"}

NoStatus == [Running |-> FALSE, Operation |-> "", Phase |-> "", Error |-> ""]
NoJobResponse == [code |-> 0, before |-> NoStatus, after |-> NoStatus]

InitJobs ==
    /\ FieldIdle
    /\ CoverIdle
    /\ ArchInitWith(<<>>)
    /\ edits = [c \in Clients |-> NoRequest]
    /\ scan = NoScan
    /\ catalog = [rows |-> <<>>]
    /\ sessions = [tokens |-> {}]
    /\ rebuild = [state |-> NoStatus, jobs |-> <<>>, startup |-> "pending",
                  last |-> NoJobResponse]

JobsFrame == UNCHANGED <<fieldVars, archVars, coverVars, edits, scan, catalog, sessions>>

\* main: go func() { s.Start(bookPath) }()
StartupScanBegin ==
    /\ rebuild.startup = "pending"
    /\ JobsFrame
    /\ rebuild' = [rebuild EXCEPT !.startup = "scanning"]

StartupScanEnd ==
    /\ rebuild.startup = "scanning"
    /\ JobsFrame
    /\ rebuild' = [rebuild EXCEPT !.startup = "done"]

\* a mutex that does not look at Running
startScanJobAlways(operation) ==
    /\ Len(rebuild.jobs) < MaxJobs
    /\ JobsFrame
    /\ \E st \in {[Running |-> TRUE, Operation |-> operation, Phase |-> "queued",
                   Error |-> ""]} :
         rebuild' = [rebuild EXCEPT
                        !.state = st,
                        !.jobs = Append(@, [operation |-> operation, pc |-> "queued"]),
                        !.last = [code |-> 202, before |-> rebuild.state, after |-> st]]

\* startScanJob: POST /api/admin/rebuild and POST /api/admin/rescan
startScanJob(operation) ==
    /\ Len(rebuild.jobs) < MaxJobs
    /\ JobsFrame
    /\ IF rebuild.state.Running
       THEN rebuild' = [rebuild EXCEPT !.last = [code |-> 409, before |-> rebuild.state,
                                                 after |-> rebuild.state]]
       ELSE \E st \in {[Running |-> TRUE, Operation |-> operation, Phase |-> "queued",
                        Error |-> ""]} :
              rebuild' = [rebuild EXCEPT
                             !.state = st,
                             !.jobs = Append(@, [operation |-> operation, pc |-> "queued"]),
                             !.last = [code |-> 202, before |-> rebuild.state, after |-> st]]

HandleRebuildLibrary == startScanJob("rebuild")
HandleRescanLibrary == startScanJob("rescan")

\* setRebuildProgress
setRebuildProgress(j, phase, next) ==
    rebuild' = [rebuild EXCEPT !.state.Phase = phase, !.jobs[j].pc = next]

\* finishRebuildWithError
finishRebuildWithError(j, message) ==
    rebuild' = [rebuild EXCEPT !.state.Running = FALSE, !.state.Phase = "failed",
                               !.state.Error = message, !.jobs[j].pc = "done"]

\* runScanJob: the first critical section of the goroutine
JobProgress(j) ==
    /\ j \in 1..Len(rebuild.jobs)
    /\ JobsFrame
    /\ \/ /\ rebuild.jobs[j].pc = "queued" /\ rebuild.jobs[j].operation = "rebuild"
          /\ setRebuildProgress(j, "resetting_db", "reset")
       \/ /\ rebuild.jobs[j].pc = "cleared"
          /\ setRebuildProgress(j, "clearing_covers", "clear")
       \/ /\ \/ rebuild.jobs[j].pc = "queued" /\ rebuild.jobs[j].operation = "rescan"
             \/ rebuild.jobs[j].pc = "ready"
          /\ setRebuildProgress(j, "scanning", "start")

\* s.db.RebuildBooksTable()
JobResetDB(j) ==
    /\ j \in 1..Len(rebuild.jobs)
    /\ rebuild.jobs[j].pc = "reset"
    /\ JobsFrame
    /\ \/ rebuild' = [rebuild EXCEPT !.jobs[j].pc = "cleared"]
       \/ finishRebuildWithError(j, "Failed to reset database: ")

\* os.RemoveAll and os.MkdirAll of ./data/covers
JobClearCovers(j) ==
    /\ j \in 1..Len(rebuild.jobs)
    /\ rebuild.jobs[j].pc = "clear"
    /\ JobsFrame
    /\ \/ rebuild' = [rebuild EXCEPT !.jobs[j].pc = "ready"]
       \/ finishRebuildWithError(j, "Failed to clear covers cache: ")
       \/ finishRebuildWithError(j, "Failed to recreate covers cache: ")

\* sc.Start(bookPath) is entered
JobScanBegin(j) ==
    /\ j \in 1..Len(rebuild.jobs)
    /\ rebuild.jobs[j].pc = "start"
    /\ JobsFrame
    /\ rebuild' = [rebuild EXCEPT !.jobs[j].pc = "scanning"]

\* sc.Start(bookPath) returns
JobScanEnd(j) ==
    /\ j \in 1..Len(rebuild.jobs)
    /\ rebuild.jobs[j].pc = "scanning"
    /\ JobsFrame
    /\ \/ rebuild' = [rebuild EXCEPT !.jobs[j].pc = "list"]
       \/ finishRebuildWithError(j, "scan failed: ")

\* s.db.GetAllBooks() and the last critical section
JobFinish(j) ==
    /\ j \in 1..Len(rebuild.jobs)
    /\ rebuild.jobs[j].pc = "list"
    /\ JobsFrame
    /\ \/ rebuild' = [rebuild EXCEPT !.state.Running = FALSE, !.state.Phase = "complete",
                                     !.state.Error = "", !.jobs[j].pc = "done"]
       \/ finishRebuildWithError(j, "finished but listing failed: ")

runScanJob ==
    \E j \in 1..MaxJobs :
        \/ JobProgress(j)
        \/ JobResetDB(j)
        \/ JobClearCovers(j)
        \/ JobScanBegin(j)
        \/ JobScanEnd(j)
        \/ JobFinish(j)

NextJobs ==
    \/ StartupScanBegin
    \/ StartupScanEnd
    \/ HandleRebuildLibrary
    \/ HandleRescanLibrary
    \/ runScanJob

SpecJobs == InitJobs /\ [][NextJobs]_vars

\* the goroutine of a job is scheduled and its calls return
SpecJobsLive == SpecJobs /\ WF_vars(runScanJob)

(***************************************************************************)
(* Properties of the library scans                                         *)
(***************************************************************************)
JobScans == {j \in 1..Len(rebuild.jobs) : rebuild.jobs[j].pc = "scanning"}
StartupScans == IF rebuild.startup = "scanning" THEN {0} ELSE {}

\* a request is answered 202 with a new queued status when no job was
\* running, and 409 with the status unchanged otherwise
AnsweredByRunning ==
    /\ rebuild.last.code = 202 =>
          /\ ~rebuild.last.before.Running
          /\ rebuild.last.after.Running /\ rebuild.last.after.Phase = "queued"
    /\ rebuild.last.code = 409 =>
          /\ rebuild.last.before.Running
          /\ rebuild.last.after = rebuild.last.before

\* C26: at most one Scanner.Start executes at any time, the scan started
\* at start-up included; a request starts a job only when none is running
\* and is otherwise answered 409 without a change of the status.
C26_OneScan ==
    /\ Cardinality(JobScans \cup StartupScans) <= 1
    /\ AnsweredByRunning

\* the same for the scans of rebuild and rescan jobs alone
C26_OneJobScan ==
    /\ Cardinality(JobScans) <= 1
    /\ AnsweredByRunning


ActivePhases == {"queued", "resetting_db", "clearing_covers", "scanning"}
TerminalPhases == {"complete", "failed"}

\* the phases that may follow a phase, by operation
PhaseOrder(operation) ==
    {<<"", "queued">>, <<"complete", "queued">>, <<"failed", "queued">>,
     <<"scanning", "complete">>, <<"scanning", "failed">>}
      \cup (IF operation = "rebuild"
            THEN {<<"queued", "resetting_db">>, <<"resetting_db", "clearing_covers">>,
                  <<"resetting_db", "failed">>, <<"clearing_covers", "scanning">>,
                  <<"clearing_covers", "failed">>}
            ELSE {<<"queued", "scanning">>})

C27_State ==
    /\ rebuild.state.Running <=> rebuild.state.Phase \in ActivePhases
    /\ rebuild.state.Running <=> \E j \in 1..Len(rebuild.jobs) : rebuild.jobs[j].pc # "done"
    /\ rebuild.jobs # <<>> => rebuild.state.Phase \in ActivePhases \cup TerminalPhases
    /\ rebuild.state.Phase = "failed" => rebuild.state.Error # ""
    /\ rebuild.state.Phase = "complete" => rebuild.state.Error = ""
    /\ (rebuild.last.code # 0 /\ ~rebuild.last.before.Running) =>
          (rebuild.last.code = 202 /\ rebuild.last.after.Running)

C27_Step ==
    rebuild'.state # rebuild.state =>
        /\ <<rebuild.state.Phase, rebuild'.state.Phase>> \in PhaseOrder(rebuild'.state.Operation)
        /\ rebuild'.state.Phase # "queued" => rebuild'.state.Operation = rebuild.state.Operation

\* C27: every accepted job eventually ends with Running false and the phase
\* complete or failed; the phase moves only queued, then for a rebuild
\* resetting_db and clearing_covers, then scanning, then complete or
\* failed; Running is true exactly in the phases before the terminal one; a
\* failed job has an error text and a completed one has none; a request
\* made when no job is running is accepted.
C27_JobLifecycle ==
    /\ [](C27_State)
    /\ [][C27_Step]_vars
    /\ \A j \in 1..MaxJobs :
          (Len(rebuild.jobs) >= j) ~>
             (/\ Len(rebuild.jobs) >= j /\ rebuild.jobs[j].pc = "done"
              /\ ~rebuild.state.Running /\ rebuild.state.Phase \in TerminalPhases)

\* a rebuild has completed and a rescan accepted after it has failed
C27_Witness ==
    /\ Len(rebuild.jobs) = 2
    /\ rebuild.jobs[1] = [operation |-> "rebuild", pc |-> "done"]
    /\ rebuild.jobs[2] = [operation |-> "rescan", pc |-> "done"]
    /\ rebuild.last.code = 202 /\ rebuild.last.before.Phase = "complete"
    /\ rebuild.state = [Running |-> FALSE, Operation |-> "rescan", Phase |-> "failed",
                        Error |-> "scan failed: "]


(***************************************************************************)
(* The library on disk: two books, each with its EPUB file, the cover.jpg  *)
(* of its directory, its data/covers/<id>.jpg and its row of the books     *)
(* table.  HandleUpdateCover acts on all four stores of one book; a        *)
(* rebuild clears the cover cache and runs SaveCover for every book.       *)
(***************************************************************************)
MaxRequests == 1

ShelfBooks == {1, 2}
ShelfDirs == {"lib", "lib/other"}
ShelfArchives == {ArchiveMetaCover, ArchiveCanonical, ArchivePlain}
ShelfFaults == CoverFaults \cup {"stat", "db"}
NoShelfRequest == [pc |-> "idle"]

\* os.WriteFile that fails after it has truncated the file
TornBlob == [kind |-> "file", data |-> <<>>, partial |-> TRUE]

\* the image SaveCover stores for a book: the sibling cover.jpg when it is a
\* file, else the entry the loops over the archive find
ResolvedCover(file, sib) ==
    IF SiblingIsFile(sib) THEN sib.data
    ELSE LET loc == LocateInArchive(file.entries, TRUE)
         IN  IF loc.entry = 0 THEN <<>> ELSE file.entries[loc.entry].data

CoverOf(s, b) == ResolvedCover(s.books[b].file, s.siblings[s.books[b].dir])

InitShelf ==
    /\ FieldIdle
    /\ CoverIdle
    /\ ArchInitWith(<<>>)
    /\ edits = [c \in Clients |-> NoRequest]
    /\ scan = NoScan
    /\ sessions = [tokens |-> {}]
    /\ rebuild = [running |-> FALSE]
    /\ \E a1 \in ShelfArchives, a2 \in ShelfArchives, d2 \in ShelfDirs,
          sib \in {NoBlob, Blob(SiblingImage)} :
         catalog =
           [books    |-> [b \in ShelfBooks |->
                            [dir |-> IF b = 1 THEN "lib" ELSE d2,
                             file |-> ZipFile(IF b = 1 THEN a1 ELSE a2),
                             fileTime |-> 0]],
            siblings |-> [d \in ShelfDirs |-> IF d = "lib" THEN NoBlob ELSE sib],
            cache    |-> [b \in ShelfBooks |-> NoBlob],
            rows     |-> [b \in ShelfBooks |-> [modTime |-> 0]],
            requests |-> 0,
            last     |-> NoShelfRequest]

ShelfFrame == UNCHANGED <<fieldVars, archVars, coverVars, edits, scan, sessions, rebuild>>

\* HandleUpdateCover with its effects on the stores, lines 1708-1811
UpdateCoverOfBook(b) ==
    /\ catalog.requests < MaxRequests
    /\ ShelfFrame
    /\ \E key \in Selections, writeToEPUB \in BOOLEAN, fault \in ShelfFaults :
       \E torn \in IF fault \in {"cache", "sibling"} THEN BOOLEAN ELSE {FALSE} :
       \E book \in {catalog.books[b]} :
       \E got \in {ReadCoverOption(book.file, key, fault)} :
       \E plan \in {PrepareCover(book.file.entries, key)} :
       \E written \in {WriteCoverToEPUBOutcome(book.file, fault, plan)} :
       \E resp \in {CoverResponse(writeToEPUB, fault, got, written)} :
       \E out \in {IF written.err = ""
                   THEN FullOutput([kind |-> "cover", reader |-> book.file.entries,
                                    plan |-> plan])
                   ELSE <<>>} :
         LET converted == got.err = "" /\ Decodable(got.raw)
             jpg       == IF converted THEN EncodeJPEG(got.raw) ELSE <<>>
             cacheOK   == converted /\ fault # "cache"
             epubOK    == cacheOK /\ writeToEPUB /\ written.err = ""
             sibOK     == epubOK /\ fault \notin {"siblingPermission", "sibling"}
             dbOK      == sibOK /\ fault \notin {"stat", "db"}
             newTime   == IF epubOK THEN book.fileTime + 1 ELSE book.fileTime
         IN  catalog' =
               [books    |-> [catalog.books EXCEPT ![b] =
                                [dir |-> book.dir,
                                 file |-> IF epubOK THEN ZipFile(out) ELSE book.file,
                                 fileTime |-> newTime]],
                siblings |-> [catalog.siblings EXCEPT ![book.dir] =
                                IF sibOK THEN Blob(jpg)
                                ELSE IF epubOK /\ fault = "sibling" /\ torn
                                THEN TornBlob ELSE @],
                cache    |-> [catalog.cache EXCEPT ![b] =
                                IF cacheOK THEN Blob(jpg)
                                ELSE IF converted /\ fault = "cache" /\ torn
                                THEN TornBlob ELSE @],
                rows     |-> [catalog.rows EXCEPT ![b] =
                                [modTime |-> IF dbOK THEN newTime ELSE @.modTime]],
                requests |-> catalog.requests + 1,
                last     |-> [pc |-> "done", book |-> b, key |-> key,
                              writeToEPUB |-> writeToEPUB, status |-> resp.status,
                              jpg |-> jpg,
                              before |-> [file |-> book.file,
                                          cache |-> catalog.cache[b],
                                          sibling |-> catalog.siblings[book.dir],
                                          resolved |-> [o \in ShelfBooks |->
                                                          CoverOf(catalog, o)]]]]

\* runScanJob of a rebuild: data/covers is removed and SaveCover runs for
\* every book
RebuildCovers ==
    /\ ShelfFrame
    /\ catalog' =
         [catalog EXCEPT
            !.cache = [b \in ShelfBooks |->
                         IF CoverOf(catalog, b) = <<>> THEN NoBlob
                         ELSE Blob(CoverOf(catalog, b))],
            !.rows = [b \in ShelfBooks |-> [modTime |-> catalog.books[b].fileTime]],
            !.last = NoShelfRequest]

NextShelf == (\E b \in ShelfBooks : UpdateCoverOfBook(b)) \/ RebuildCovers

SpecShelf == InitShelf /\ [][NextShelf]_vars

OtherBooks(b) == ShelfBooks \ {b}

\* C28: after a cover update of one book, the cover the locator resolves
\* for every other book is the one it resolved before the update, also for
\* a book of the same directory and an update with write_to_epub
C28_OtherBooksCover ==
    catalog.last.pc = "done" =>
        \A o \in OtherBooks(catalog.last.book) :
            CoverOf(catalog, o) = catalog.last.before.resolved[o]

\* C28 for books of different directories
C28_OtherDirectory ==
    catalog.last.pc = "done" =>
        \A o \in OtherBooks(catalog.last.book) :
            catalog.books[o].dir # catalog.books[catalog.last.book].dir =>
                CoverOf(catalog, o) = catalog.last.before.resolved[o]


\* the stores of the book of the last cover update
LastBook == catalog.books[catalog.last.book]
LastStoresUnchanged ==
    /\ catalog.cache[catalog.last.book] = catalog.last.before.cache
    /\ LastBook.file = catalog.last.before.file
    /\ catalog.siblings[LastBook.dir] = catalog.last.before.sibling

\* the canonical cover entry of the EPUB after the update
LastCanonicalCover ==
    readZipEntry(LastBook.file.entries,
                 PrepareCover(catalog.last.before.file.entries,
                              catalog.last.key).canonical)

LastStoresHoldImage ==
    /\ catalog.cache[catalog.last.book] = Blob(catalog.last.jpg)
    /\ catalog.siblings[LastBook.dir] = Blob(catalog.last.jpg)
    /\ LastCanonicalCover.err = ""
    /\ LastCanonicalCover.data = catalog.last.jpg

\* C30: a cover update answered with an error has changed none of the cache
\* file, the EPUB and the sibling cover.jpg; one answered with success and
\* write_to_epub has put the selected image in all three and the row's
\* mod_time equals the modification time of the rewritten EPUB
C30_AllOrNothing ==
    catalog.last.pc = "done" =>
        /\ catalog.last.status # 200 => LastStoresUnchanged
        /\ catalog.last.status = 200 /\ catalog.last.writeToEPUB =>
              /\ LastStoresHoldImage
              /\ catalog.rows[catalog.last.book].modTime = LastBook.fileTime

\* C30, the part on the images of a successful update
C30_SuccessImages ==
    catalog.last.pc = "done" /\ catalog.last.status = 200 /\ catalog.last.writeToEPUB
        => LastStoresHoldImage

\* C30, the part on errors before the image was converted
C30_NotFoundLeavesStores ==
    catalog.last.pc = "done" /\ catalog.last.status = 404 => LastStoresUnchanged


(***************************************************************************)
(* The manifest against the archive after a cover write                    *)
(***************************************************************************)
\* the manifest items of the package document of an archive
ManifestItems(files, opfPath) == UnmarshalOPF(readZipEntry(files, opfPath).data).Manifest

\* the zip path the href of a manifest item resolves to
ItemPath(item, opfPath) == normalizeZipPath(JoinPath(DirOfName(opfPath), item.href))

NormalizedNames(files) == {normalizeZipPath(files[i].name) : i \in 1..Len(files)}

\* the remaining manifest items whose href resolved to an entry before the
\* write and resolves to none after it
DanglingItems(old, new, opfPath) ==
    LET m == ManifestItems(new, opfPath)
    IN  {i \in 1..Len(m) :
            /\ ItemPath(m[i], opfPath) \in NormalizedNames(old)
            /\ ItemPath(m[i], opfPath) \notin NormalizedNames(new)}

\* the ids the <meta name="cover"> pointers of the old package document name
CoverPointerIds(old, opfPath) ==
    LET opf0 == UnmarshalOPF(readZipEntry(old, opfPath).data)
    IN  {TrimSpace(opf0.Meta[i].v) : i \in
            {j \in 1..Len(opf0.Meta) : LowerStr(opf0.Meta[j].n) = "cover"}}

\* C29: after a successful cover write every manifest item that remains in
\* the package document and whose href resolved to an entry of the archive
\* before the write resolves to an entry of the rewritten archive
C29_ManifestResolves ==
    Succeeded("w1", "cover") =>
        DanglingItems(orig["w1"].entries, disk[EpubPath].entries,
                      job["w1"].plan.opfPath) = {}

\* C29 for the items that no <meta name="cover"> pointer named
C29_UnpointedItemsResolve ==
    Succeeded("w1", "cover") =>
        LET m == ManifestItems(disk[EpubPath].entries, job["w1"].plan.opfPath)
        IN  \A i \in DanglingItems(orig["w1"].entries, disk[EpubPath].entries,
                                   job["w1"].plan.opfPath) :
                TrimSpace(m[i].id) \in
                    CoverPointerIds(orig["w1"].entries, job["w1"].plan.opfPath)

=============================================================================
